---- MODULE Spec2Model ----
(***************************************************************************)
(* Meshanina: an append-only key/value store.                              *)
(*                                                                         *)
(* Two generations of the store live in the repository and both are        *)
(* modelled here:                                                          *)
(*   - the indexed mapping (mapping.rs, legacy/record.rs): an index of     *)
(*     8-byte words (alloc_mmap) whose word 0 is the allocation pointer    *)
(*     and whose other words point into a table of 768-byte records;       *)
(*     specification Spec;                                                 *)
(*   - the HAMT table (table.rs, record.rs, lib.rs): specification         *)
(*     SpecTable.                                                          *)
(*                                                                         *)
(* Byte strings are kept run-length encoded: a sequence of runs <<b, n>>   *)
(* (n > 0 bytes of value b, adjacent runs of different bytes), so that the *)
(* real record sizes can be kept.  Machine words are scaled down: usize    *)
(* ranges over 0 .. UsizeMod-1, a multiple of the number of index words,   *)
(* as 2^64 is a multiple of 2^27.                                          *)
(***************************************************************************)
EXTENDS Integers, Sequences, FiniteSets, TLC

(* ------------------------------ bounds -------------------------------- *)

\* Number of 8-byte words of the index, alloc_mmap.len() / 8 (2^27 in the code).
IndexWords == 6

\* usize holds IndexWords * UsizeLaps values (2^64 = 2^27 * 2^37 in the code).
UsizeLaps == 2

\* Caller keys are 0 .. NKeys-1.
NKeys == 2

\* Number of record positions of the record table.
TableSlots == 7

\* Number of record slots the environment may damage.
MaxCorrupt == 1

\* Width of the modelled CRC-32 in bits (32 in the code).
CrcBits == 6

\* Bits of a key that index one level of the HAMT (6 in the code).
HIndexBits == 1

\* Number of index groups in the low 16 bytes of a key (22 in the code).
IKeyGroups == 2

\* Width of the modelled SipHash checksum in bits (64 in the code).
SipBits == 3

\* Number of records the table file may hold.
MaxRecords == 6

\* The HAMT keys below this bound are inserted with every value, the other
\* keys with one value.
ManyValuedKeys == 1

\* Number of threads that share one Mapping.
NThreads == 2

\* Kills of the process in one behaviour.
MaxKills == 1

(* ------------------------- program constants -------------------------- *)

MAX_RECORD_BODYLEN == 728

NWords == IndexWords

UsizeMod == IndexWords * UsizeLaps

CrcMod == 2 ^ CrcBits

Keys == 0 .. (NKeys - 1)

(* --------------------------- byte strings ----------------------------- *)

\* n bytes of value b.
Run(b, n) == IF n > 0 THEN << <<b, n>> >> ELSE << >>

RECURSIVE BLen(_)
\* Number of bytes of a byte string (slice.len()).
BLen(s) == IF s = << >> THEN 0 ELSE s[1][2] + BLen(Tail(s))

RECURSIVE ByteSum(_)
\* Sum of the bytes of a byte string.
ByteSum(s) == IF s = << >> THEN 0 ELSE s[1][1] * s[1][2] + ByteSum(Tail(s))

\* Concatenation of two byte strings.
Cat(s, t) ==
    IF s = << >> THEN t
    ELSE IF t = << >> THEN s
    ELSE IF s[Len(s)][1] = t[1][1]
         THEN SubSeq(s, 1, Len(s) - 1)
                  \o << <<t[1][1], s[Len(s)][2] + t[1][2]>> >> \o Tail(t)
         ELSE s \o t

RECURSIVE Take(_, _)
\* The first n bytes of s, s[..n] (all of s when it is shorter).
Take(s, n) ==
    IF n <= 0 \/ s = << >> THEN << >>
    ELSE IF s[1][2] <= n THEN Cat(<< s[1] >>, Take(Tail(s), n - s[1][2]))
    ELSE << <<s[1][1], n>> >>

RECURSIVE Drop(_, _)
\* s without its first n bytes, s[n..].
Drop(s, n) ==
    IF n <= 0 THEN s
    ELSE IF s = << >> THEN << >>
    ELSE IF s[1][2] <= n THEN Drop(Tail(s), n - s[1][2])
    ELSE << <<s[1][1], s[1][2] - n>> >> \o Tail(s)

\* ceil(a / b)
CeilDiv(a, b) == (a + b - 1) \div b

\* The i-th chunk (from 0) of value.chunks(size).
Chunk(s, size, i) == Take(Drop(s, i * size), size)

\* Number of chunks of slice.chunks(size) for a slice of n bytes.
NumChunks(n, size) == CeilDiv(n, size)

(* --------------------------- legacy record ---------------------------- *)

\* CRC-32 of bytes [4..768) of a record: key, length and body.  A checksum
\* of CrcBits bits that depends on every byte and takes every value of its
\* range, zero included.
Crc32(key, length, body) == (1 + key + length + ByteSum(body)) % CrcMod

\* The all-zero slot of the record table.
ZeroSlot ==
    [checksum |-> 0, key |-> 0, length |-> 0,
     body |-> Run(0, MAX_RECORD_BODYLEN)]

\* new_record with the checksum taken before the key, the length and the
\* value are copied into the zeroed record.
new_record_checksum_first(key, length, value) ==
    LET body == Cat(value, Run(0, MAX_RECORD_BODYLEN - BLen(value)))
    IN  [checksum |-> Crc32(0, 0, Run(0, MAX_RECORD_BODYLEN)), key |-> key,
         length |-> length, body |-> body]

\* new_record: the body is the value followed by zeros, the checksum is
\* computed last.  (The caller always passes length >= value.len().)
new_record(key, length, value) ==
    LET body == Cat(value, Run(0, MAX_RECORD_BODYLEN - BLen(value)))
    IN  [checksum |-> Crc32(key, length, body), key |-> key,
         length |-> length, body |-> body]

\* Record::new_crc32
new_crc32(rec) == Crc32(rec.key, rec.length, rec.body)

\* Record::legacy_crc32 (CRC_32_ISO_HDLC is the same CRC-32 as crc32fast).
legacy_crc32(rec) == Crc32(rec.key, rec.length, rec.body)

\* Record::validate without the comparison of the checksums.
validate_nonzero_only(rec) == rec.checksum > 0

\* Record::validate without the test that the stored checksum is not zero.
validate_match_only(rec) ==
    rec.checksum = new_crc32(rec) \/ rec.checksum = legacy_crc32(rec)

\* Record::validate, as a predicate: TRUE when it returns Some.
validate(rec) ==
    /\ rec.checksum > 0
    /\ (rec.checksum = new_crc32(rec) \/ rec.checksum = legacy_crc32(rec))

\* Record::value without the cut at `length`.
RecordValueWhole(rec) == rec.body

\* Record::value
RecordValue(rec) ==
    IF BLen(rec.body) > rec.length THEN Take(rec.body, rec.length) ELSE rec.body

(* ------------------------------ hashing ------------------------------- *)

\* The 256-bit derived keys are numbers whose low part is the low 64 bits
\* and whose high part tells the hashed inputs apart (BLAKE3 does not
\* collide on the inputs used).
DerivedKey(low, tag) == UsizeMod * tag + (low % UsizeMod)

\* atomic_key: BLAKE3 of the caller key.
atomic_key(k) == DerivedKey(UsizeMod * 16 - 1 - 9 * k, 8 * k + 1)

\* chunk_key that hashes the same index for every chunk.
chunk_key_no_index(parent, index) ==
    DerivedKey(NWords - 1 + 5 * parent, 8 * parent + 2)

\* chunk_key: keyed BLAKE3 of the chunk index.
chunk_key(parent, index) ==
    DerivedKey(NWords - 1 + index + 5 * parent, 8 * parent + 2 + index)

\* U256::as_u64
as_u64(key) == key % UsizeMod

(* ------------------------------ values -------------------------------- *)

\* A one-byte value whose record under the derived key dk has CRC-32 zero.
ZeroCrcValue(dk) == Run((CrcMod * (dk + 2) - 2 - dk) % CrcMod, 1)

Hello == Run(104, 5)

ZeroShort == ZeroCrcValue(atomic_key(0))

Long729 == Run(97, MAX_RECORD_BODYLEN + 1)

Long2000 == Run(98, 2 * MAX_RECORD_BODYLEN + 544)

LongZ == Cat(Run(97, MAX_RECORD_BODYLEN), ZeroCrcValue(chunk_key(0, 1)))

\* The values callers insert.
Values == {Hello, ZeroShort, LongZ, Long2000}

(* ------------------------- the indexed mapping ------------------------ *)

VARIABLES
    alloc_mmap,       \* MappingInner.alloc_mmap: word 0 is the allocation
                      \* pointer, word w > 0 a record position or 0
    table,            \* MappingInner.table: record position -> 768-byte slot
    overflow_checks,  \* TRUE: arithmetic overflow panics (debug profile);
                      \* FALSE: it wraps (release profile)
    hung,             \* "no", or "reader"/"writer": a call that never returns
                      \* holds the mapping's lock for reading/writing
    ncorrupt,         \* slots damaged so far
    called,           \* the caller keys Mapping::insert was called with
    first,            \* caller key -> << >>, or <<v>>: v is the value of the
                      \* first insert of that key that returned
    last,             \* the last call and its outcome
    root,             \* Table.root
    dirty,            \* Table.dirty
    divider,          \* Table.divider
    file,             \* the records of the table file past the reserved
                      \* region, in the order written
    ptr,              \* Table.ptr
    handle,           \* "created": the Mapping that created the file;
                      \* "reopened": a Mapping opened on the existing file;
                      \* "dropped": the Mapping was dropped; "none": no
                      \* Mapping (the open failed, the process died)
    hist,             \* key -> what its inserts and the flushes did so far
    inner,            \* Mapping.inner, the RwLock: 0 when no writer holds
                      \* it, t when thread t holds it for writing
    threads,          \* thread -> where its Mapping::insert stands
    kills,            \* how many times the process was killed
    codec,            \* the input of a record codec taken alone, and what
                      \* the codec makes of it: a slot read from the file
                      \* (validate, new_record), or a record and a divider
                      \* (write_bytes, new_borrowed)
    flusher           \* the "mesh-flush" thread: "awake": at the head of its
                      \* loop, holding no Arc; "asleep": in its sleep, holding
                      \* the Arc it upgraded; "gone": it returned (or there
                      \* is none)

\* The variables of the indexed mapping.
mvars == <<alloc_mmap, table, hung, ncorrupt, called, first>>

\* The variables of the HAMT table.
tvars == <<root, dirty, divider, file, ptr, handle, hist, flusher>>

\* The variable of the record codec taken alone.
cvars == <<codec>>

\* The lock of the Mapping, the threads that call it and the kills of their
\* process.
lvars == <<inner, threads, kills>>

vars ==
    <<alloc_mmap, table, overflow_checks, hung, ncorrupt, called, first, last,
      root, dirty, divider, file, ptr, handle, hist, flusher, codec,
      inner, threads, kills>>

\* Results of get and get_atomic.
None == [kind |-> "None", value |-> << >>, length |-> 0]

Some(value, length) == [kind |-> "Some", value |-> value, length |-> length]

Panic == [kind |-> "panic", value |-> << >>, length |-> 0]

Diverge == [kind |-> "diverge", value |-> << >>, length |-> 0]

\* Table::get of the record table: the slot at a position of the table.
TableGet(tab, p) ==
    IF p \in DOMAIN tab THEN [ok |-> TRUE, rec |-> tab[p]]
    ELSE [ok |-> FALSE, rec |-> ZeroSlot]

\* Table::insert of the record table: the slot at position p is overwritten.
TableInsert(tab, p, rec) == [tab EXCEPT ![p] = rec]

\* probe_sequence: the v-th position probed for a key, i + v in usize.
\* [ok |-> FALSE]: the addition overflows and overflow checks are on.
probe_sequence(key, v, checks) ==
    LET sum == as_u64(key) + v
    IN  [ok |-> ~ (checks /\ sum >= UsizeMod), posn |-> sum % UsizeMod]

RECURSIVE GetProbe(_, _, _, _, _)
\* The loop of get_atomic from the v-th probe on.  The state does not change
\* while it runs: once v has covered all of usize without a stop the loop
\* repeats itself for ever.
GetProbe(mm, tab, checks, key, v) ==
    LET pr == probe_sequence(key, v, checks)
        offset == pr.posn % NWords
        got == TableGet(tab, mm[offset])
    IN  IF ~ pr.ok THEN Panic
        ELSE IF v >= UsizeMod THEN Diverge
        ELSE IF offset = 0 THEN GetProbe(mm, tab, checks, key, v + 1)
        ELSE IF mm[offset] = 0 THEN None
        ELSE IF ~ got.ok THEN None
        ELSE IF ~ validate(got.rec) THEN None
        ELSE IF got.rec.key # key THEN GetProbe(mm, tab, checks, key, v + 1)
        ELSE Some(RecordValue(got.rec), got.rec.length)

\* MappingInner::get_atomic
get_atomic(mm, tab, checks, key) == GetProbe(mm, tab, checks, key, 0)

RECURSIVE GetChunks(_, _, _, _, _, _, _)
\* The chunk loop of Mapping::get: buf holds the chunks copied so far.
GetChunks(mm, tab, checks, key, top_length, i, buf) ==
    LET want == IF (i + 1) * MAX_RECORD_BODYLEN <= top_length
                THEN MAX_RECORD_BODYLEN
                ELSE top_length - i * MAX_RECORD_BODYLEN
        got == get_atomic(mm, tab, checks, chunk_key(key, i))
    IN  IF i >= NumChunks(top_length, MAX_RECORD_BODYLEN)
        THEN Some(buf, top_length)
        ELSE IF got.kind # "Some" THEN got
        ELSE IF BLen(got.value) # want THEN Panic   \* copy_from_slice
        ELSE GetChunks(mm, tab, checks, key, top_length, i + 1,
                       Cat(buf, got.value))

\* Mapping::get that takes a record of length 0 for no record.
GetInEmptyAbsent(mm, tab, checks, key) ==
    LET top == get_atomic(mm, tab, checks, atomic_key(key))
    IN  IF top.kind # "Some" THEN top
        ELSE IF top.length = 0 THEN None
        ELSE IF top.length <= MAX_RECORD_BODYLEN
             THEN Some(top.value, top.length)
        ELSE GetChunks(mm, tab, checks, key, top.length, 0, << >>)

\* Mapping::get on a given store.
GetIn(mm, tab, checks, key) ==
    LET top == get_atomic(mm, tab, checks, atomic_key(key))
    IN  IF top.kind # "Some" THEN top
        ELSE IF top.length <= MAX_RECORD_BODYLEN
             THEN Some(top.value, top.length)
        ELSE GetChunks(mm, tab, checks, key, top.length, 0, << >>)

RECURSIVE InsertProbe(_, _, _, _, _)
\* The probe loop with an invalid slot passed over instead of reused.
InsertProbePassInvalid(mm, tab, checks, key, v) ==
    LET pr == probe_sequence(key, v, checks)
        offset == pr.posn % NWords
        got == TableGet(tab, mm[offset])
    IN  IF ~ pr.ok THEN [kind |-> "panic", at |-> 0]
        ELSE IF v >= UsizeMod THEN [kind |-> "diverge", at |-> 0]
        ELSE IF offset = 0 THEN InsertProbe(mm, tab, checks, key, v + 1)
        ELSE IF mm[offset] = 0 THEN [kind |-> "write", at |-> offset]
        ELSE IF ~ got.ok THEN [kind |-> "panic", at |-> 0]
        ELSE IF validate(got.rec) /\ got.rec.key = key
             THEN [kind |-> "exists", at |-> offset]
        ELSE InsertProbe(mm, tab, checks, key, v + 1)

\* The probe loop that goes past the first word of the path when it is free.
InsertProbeSkipFirst(mm, tab, checks, key, v) ==
    LET pr == probe_sequence(key, v, checks)
        offset == pr.posn % NWords
        got == TableGet(tab, mm[offset])
    IN  IF ~ pr.ok THEN [kind |-> "panic", at |-> 0]
        ELSE IF v >= UsizeMod THEN [kind |-> "diverge", at |-> 0]
        ELSE IF offset = 0 THEN InsertProbe(mm, tab, checks, key, v + 1)
        ELSE IF mm[offset] = 0 /\ v > 0 THEN [kind |-> "write", at |-> offset]
        ELSE IF mm[offset] = 0 THEN InsertProbe(mm, tab, checks, key, v + 1)
        ELSE IF ~ got.ok THEN [kind |-> "panic", at |-> 0]
        ELSE IF ~ validate(got.rec) THEN [kind |-> "write", at |-> offset]
        ELSE IF got.rec.key = key THEN [kind |-> "exists", at |-> offset]
        ELSE InsertProbe(mm, tab, checks, key, v + 1)

\* The probe loop with index word 0 taken for a word like the others.
InsertProbeAtWordZero(mm, tab, checks, key, v) ==
    LET pr == probe_sequence(key, v, checks)
        offset == pr.posn % NWords
        got == TableGet(tab, mm[offset])
    IN  IF ~ pr.ok THEN [kind |-> "panic", at |-> 0]
        ELSE IF v >= UsizeMod THEN [kind |-> "diverge", at |-> 0]
        ELSE IF offset = 0 THEN [kind |-> "write", at |-> offset]
        ELSE IF mm[offset] = 0 THEN [kind |-> "write", at |-> offset]
        ELSE IF ~ got.ok THEN [kind |-> "panic", at |-> 0]
        ELSE IF ~ validate(got.rec) THEN [kind |-> "write", at |-> offset]
        ELSE IF got.rec.key = key THEN [kind |-> "exists", at |-> offset]
        ELSE InsertProbe(mm, tab, checks, key, v + 1)

\* The probe loop of really_insert_atomic from the v-th probe on: what the
\* loop decides.  "write": the index word `at` is free or points to an
\* invalid record; "exists": a valid record with this key was found.
InsertProbe(mm, tab, checks, key, v) ==
    LET pr == probe_sequence(key, v, checks)
        offset == pr.posn % NWords
        got == TableGet(tab, mm[offset])
    IN  IF ~ pr.ok THEN [kind |-> "panic", at |-> 0]
        ELSE IF v >= UsizeMod THEN [kind |-> "diverge", at |-> 0]
        ELSE IF offset = 0 THEN InsertProbe(mm, tab, checks, key, v + 1)
        ELSE IF mm[offset] = 0 THEN [kind |-> "write", at |-> offset]
        ELSE IF ~ got.ok THEN [kind |-> "panic", at |-> 0]   \* expect("wtf")
        ELSE IF ~ validate(got.rec) THEN [kind |-> "write", at |-> offset]
        ELSE IF got.rec.key = key THEN [kind |-> "exists", at |-> offset]
        ELSE InsertProbe(mm, tab, checks, key, v + 1)

\* really_insert_atomic that writes the new record over the invalid record
\* its index word pointed to.
really_insert_atomic_in_place(st, checks, key, value, value_length) ==
    LET posn == st.mm[0]
        found == InsertProbe(st.mm, st.tab, checks, key, 0)
        fresh == IF posn = 0 THEN 1 ELSE posn
        p == IF found.kind = "write" /\ st.mm[found.at] # 0
             THEN st.mm[found.at] ELSE fresh
        rec == new_record(key,
                          IF value_length = -1 THEN BLen(value) ELSE value_length,
                          value)
    IN  IF found.kind = "exists" THEN st
        ELSE IF found.kind # "write"
             THEN [st EXCEPT !.res = found.kind, !.at = key]
        ELSE IF p \notin DOMAIN st.tab THEN [st EXCEPT !.res = "full"]
        ELSE [mm |-> [st.mm EXCEPT ![found.at] = p,
                                   ![0] = IF p = fresh THEN p + 1 ELSE posn],
              tab |-> TableInsert(st.tab, p, rec),
              res |-> "ok", at |-> 0]

\* MappingInner::really_insert_atomic on the store st = [mm, tab, res].
\* value_length is -1 for None.  res: "ok" (returned Some), "panic",
\* "diverge" (the loop never ends), "full" (the record table has no
\* position left); at: the derived key of the atomic insert that did not
\* return.
really_insert_atomic(st, checks, key, value, value_length) ==
    LET posn == st.mm[0]
        found == InsertProbe(st.mm, st.tab, checks, key, 0)
        p == IF posn = 0 THEN 1 ELSE posn
        rec == new_record(key,
                          IF value_length = -1 THEN BLen(value) ELSE value_length,
                          value)
    IN  IF found.kind = "exists" THEN st
        ELSE IF found.kind # "write"
             THEN [st EXCEPT !.res = found.kind, !.at = key]
        ELSE IF p \notin DOMAIN st.tab THEN [st EXCEPT !.res = "full"]
        ELSE [mm |-> [st.mm EXCEPT ![found.at] = p, ![0] = p + 1],
              tab |-> TableInsert(st.tab, p, rec),
              res |-> "ok", at |-> 0]

\* MappingInner::insert_atomic
insert_atomic(st, checks, key, value, value_length) ==
    really_insert_atomic(st, checks, key, value, value_length)

RECURSIVE InsertChunks(_, _, _, _, _)
\* The chunk loop of Mapping::insert from chunk i on.
InsertChunks(st, checks, key, value, i) ==
    IF st.res # "ok" \/ i >= NumChunks(BLen(value), MAX_RECORD_BODYLEN)
    THEN st
    ELSE InsertChunks(
             insert_atomic(st, checks, chunk_key(key, i),
                           Chunk(value, MAX_RECORD_BODYLEN, i), -1),
             checks, key, value, i + 1)

\* Mapping::insert on a given store.
InsertIn(mm, tab, checks, key, value) ==
    LET st == [mm |-> mm, tab |-> tab, res |-> "ok", at |-> 0]
    IN  IF BLen(value) <= MAX_RECORD_BODYLEN
        THEN insert_atomic(st, checks, atomic_key(key), value, -1)
        ELSE InsertChunks(
                 insert_atomic(st, checks, atomic_key(key), << >>, BLen(value)),
                 checks, key, value, 0)

(* ----------------------------- HAMT record ---------------------------- *)

RECORD_KIND_DATA == 0

RECORD_KIND_HAMI == 1

RECORD_KIND_HAMR == 2

RECORD_HEADER_SIZE == 16

\* The reserved region at the head of the table file.
RESERVED == 4096

\* Length of the mapping of the file (1 << 39 in the code).
MmapLen == 2 ^ 30

\* Number of children of a HAMT node (64 in the code).
HWidth == 2 ^ HIndexBits

\* The low 16 bytes of a key, as an integer, range over 0 .. IKeyMod-1.
IKeyMod == 2 ^ (HIndexBits * IKeyGroups)

SipMod == 2 ^ SipBits

\* Keys of the HAMT table: two that part at the root, two that part one
\* level down, and two whose low 16 bytes agree.
TableKeys == {0, 1, HWidth, IKeyMod}

\* The values callers insert, each below 13 bytes.
TableValues == {Hello, Run(7, 3)}

\* u128::from_le_bytes(key[0..16])
ikey_of(key) == key % IKeyMod

\* The 32 bytes of a key: bytes 0..16 hold ikey_of(key), bytes 16..32 the rest.
KeyBytes(key) ==
    Cat(Cat(Run(key % IKeyMod, 1), Run(0, 15)),
        Cat(Run(key \div IKeyMod, 1), Run(0, 15)))

\* The byte at index i of a byte string.
ByteAt(s, i) == Take(Drop(s, i), 1)[1][1]

\* Record::Data(key, value)
Data(key, value) ==
    [kind |-> "Data", isroot |-> FALSE, key |-> key, value |-> value,
     bitmap |-> 0, ptrs |-> << >>]

\* Record::HamtNode(r, bitmap, ptrs)
HamtNode(r, bitmap, ptrs) ==
    [kind |-> "HamtNode", isroot |-> r, key |-> 0, value |-> << >>,
     bitmap |-> bitmap, ptrs |-> ptrs]

\* RecordPtr::InMemory(rec)
InMemory(rec) == [loc |-> "InMemory", rec |-> rec, offset |-> 0]

\* RecordPtr::OnDisk(offset)
OnDisk(offset) ==
    [loc |-> "OnDisk", rec |-> HamtNode(FALSE, 0, << >>), offset |-> offset]

RECURSIVE count_ones(_)
\* u64::count_ones
count_ones(n) == IF n = 0 THEN 0 ELSE (n % 2) + count_ones(n \div 2)

\* (bitmap >> hindex) & 1 == 1
BitSet(bitmap, hindex) == (bitmap \div (2 ^ hindex)) % 2 = 1

\* (bitmap & ((1 << hindex) - 1)).count_ones()
IndexOf(bitmap, hindex) == count_ones(bitmap % (2 ^ hindex))

RECURSIVE SumSeq(_)
SumSeq(s) == IF s = << >> THEN 0 ELSE Head(s) + SumSeq(Tail(s))

\* SipHasher13 keyed by the divider over bytes [8..) of a record: a checksum
\* of SipBits bits that depends on the key and on every field hashed.
SipHash13(d, kind, length, payload) ==
    (1 + 3 * d.checksum + 5 * d.kind + d.length + 3 * kind + length + payload)
        % SipMod

\* Sixteen bytes read as the three fields that lie there in a record:
\* the u64 at 0, the u32 at 8 and the u32 at 12.
Header(checksum, kind, length) ==
    [checksum |-> checksum, kind |-> kind, length |-> length]

\* The dividers whose 16 bytes are the head of the root record that has the
\* one child at the end of the reserved region under bit 0.
RootDividers ==
    {h \in {Header(c, RECORD_KIND_HAMR, 16) : c \in 0 .. (SipMod - 1)} :
        SipHash13(h, RECORD_KIND_HAMR, 16, 1 + RESERVED) = h.checksum}

\* The dividers Table::open may draw (random_divider): one of the above, and
\* one that is the head of no record (no record has kind 3).
Dividers ==
    {Header(0, 3, 0)} \cup
    {h \in RootDividers : \A g \in RootDividers : h.checksum <= g.checksum}

\* Bytes of the file where nothing was written.
ZeroBytes ==
    [checksum |-> 0, kind |-> 0, length |-> 0, key |-> 0, value |-> << >>,
     bitmap |-> 0, offsets |-> << >>]

\* Record::write_bytes: ok is FALSE when it panics on an in-memory child; n is
\* the number of bytes written; bytes are the fields written, in order: the
\* checksum, the kind, the length and the record (no divider is written).
write_bytes(rec, d) ==
    LET kind == IF rec.kind = "Data" THEN RECORD_KIND_DATA
                ELSE IF rec.isroot THEN RECORD_KIND_HAMR
                ELSE RECORD_KIND_HAMI
        length == IF rec.kind = "Data" THEN BLen(rec.value) + 32
                  ELSE Len(rec.ptrs) * 8 + 8
        offsets == [i \in 1 .. Len(rec.ptrs) |-> rec.ptrs[i].offset]
        payload == IF rec.kind = "Data" THEN rec.key + ByteSum(rec.value)
                   ELSE rec.bitmap + SumSeq(offsets)
    IN  IF \E i \in 1 .. Len(rec.ptrs) : rec.ptrs[i].loc = "InMemory"
        THEN [ok |-> FALSE, n |-> 0, bytes |-> ZeroBytes]
        ELSE [ok |-> TRUE, n |-> 8 + 4 + 4 + length,
              bytes |-> [checksum |-> SipHash13(d, kind, length, payload),
                         kind |-> kind, length |-> length,
                         key |-> rec.key, value |-> rec.value,
                         bitmap |-> rec.bitmap, offsets |-> offsets]]

NoRecord == [some |-> FALSE, rec |-> HamtNode(FALSE, 0, << >>)]

SomeRecord(rec) == [some |-> TRUE, rec |-> rec]

\* Record::new_borrowed on a slice of avail bytes that starts with the bytes
\* b: bytes [0..16) must equal the divider, and the kind and the length are
\* read from bytes [8..16); the value of a data record is key_and_val[..32].
new_borrowed(b, avail, d) ==
    IF avail < 16 + 16 THEN NoRecord
    ELSE IF Header(b.checksum, b.kind, b.length) # d THEN NoRecord
    ELSE IF avail < b.length + RECORD_HEADER_SIZE THEN NoRecord
    ELSE IF b.kind = RECORD_KIND_DATA
         THEN IF b.length < 32 THEN NoRecord
              ELSE SomeRecord(Data(b.key, Take(Cat(KeyBytes(b.key), b.value), 32)))
    ELSE IF b.kind \in {RECORD_KIND_HAMI, RECORD_KIND_HAMR}
         THEN IF b.length < 8 THEN NoRecord
              ELSE IF count_ones(b.bitmap) * 8 # b.length - 8 THEN NoRecord
              ELSE SomeRecord(HamtNode(b.kind = RECORD_KIND_HAMR, b.bitmap,
                                       [i \in 1 .. Len(b.offsets) |->
                                            OnDisk(b.offsets[i])]))
    ELSE NoRecord

\* Record::is_root, as Table::open calls it.
is_root(rec) == rec.kind = "HamtNode" /\ rec.isroot

(* ----------------------------- HAMT table ----------------------------- *)

\* The bytes of the mapping at an offset flush_helper returned; zeros where
\* nothing was written.
ReadAt(f, offset) ==
    IF \E i \in 1 .. Len(f) : f[i].offset = offset
    THEN f[CHOOSE i \in 1 .. Len(f) : f[i].offset = offset].bytes
    ELSE ZeroBytes

\* Table::load_record: ok is FALSE when it panics ("dangling ptr").
load_record(f, d, offset) ==
    LET r == new_borrowed(ReadAt(f, offset), MmapLen - offset, d)
    IN  [ok |-> r.some, rec |-> r.rec]

\* RecordPtr::load with Table::load_record for the on-disk case.
load(p, f, d) ==
    IF p.loc = "InMemory" THEN [ok |-> TRUE, rec |-> p.rec]
    ELSE load_record(f, d, p.offset)

RECURSIVE LookupFrom(_, _, _, _, _)
\* The loop of Table::lookup from the record ptr on.
LookupFrom(f, d, rec, ikey, key) ==
    IF rec.kind = "Data"
    THEN IF key # rec.key THEN None ELSE Some(rec.value, BLen(rec.value))
    ELSE LET hindex == ikey % HWidth
             idx == IndexOf(rec.bitmap, hindex)
             loaded == load(rec.ptrs[idx + 1], f, d)
         IN  IF BitSet(rec.bitmap, hindex)
             THEN IF loaded.ok
                  THEN LookupFrom(f, d, loaded.rec, ikey \div HWidth, key)
                  ELSE Panic
             ELSE None

\* Table::lookup
lookup(t, key) == LookupFrom(t.file, t.divider, t.root, ikey_of(key), key)

\* A helper's result: the record it returns, or why it does not return.
Returned(rec) == [ok |-> TRUE, why |-> "ok", rec |-> rec]

NotReturned(why) == [ok |-> FALSE, why |-> why, rec |-> HamtNode(FALSE, 0, << >>)]

\* s with x inserted at index i (Vec::insert, from 1).
InsertAt(s, i, x) == SubSeq(s, 1, i - 1) \o <<x>> \o SubSeq(s, i, Len(s))

\* u128 >> shift: a shift by the width of ikey or more panics with overflow
\* checks (the caller tests for that) and is taken modulo the width without.
Shr(x, shift) == x \div (2 ^ (shift % (HIndexBits * IKeyGroups)))

\* The depth by which two keys part in insert_helper if they ever do: past
\* the groups of ikey, the wrapped shifts have gone through every bit.
DepthCap == IKeyGroups + HIndexBits * IKeyGroups

RECURSIVE insert_helper(_, _, _, _, _, _, _, _)
\* Table::insert_helper.  When a data record is met once every bit of ikey
\* was used, 6 * depth is at least the width of ikey: the shift panics with
\* overflow checks; without them it wraps, and the recursion ends only if
\* some wrapped shift of the existing key parts it from the new one (else
\* the stack overflows and the process is aborted).
insert_helper(f, d, checks, depth, hamt, ikey, key, value) ==
    LET hindex == ikey % HWidth
        idx == IndexOf(hamt.bitmap, hindex)
        loaded == load(hamt.ptrs[idx + 1], f, d)
        c == insert_helper(f, d, checks, depth + 1, loaded.rec,
                           ikey \div HWidth, key, value)
        a == insert_helper(f, d, checks, depth, HamtNode(FALSE, 0, << >>),
                           ikey, key, value)
        existing_ikey == ikey_of(hamt.key)
    IN  IF hamt.kind = "Data"
        THEN IF checks /\ HIndexBits * depth >= HIndexBits * IKeyGroups
             THEN NotReturned("panic")
             ELSE IF depth >= DepthCap THEN NotReturned("abort")
             ELSE IF ~a.ok THEN a
             ELSE insert_helper(f, d, checks, depth, a.rec,
                                Shr(existing_ikey, HIndexBits * depth),
                                hamt.key, hamt.value)
        ELSE IF BitSet(hamt.bitmap, hindex)
             THEN IF ~loaded.ok THEN NotReturned("panic")
                  ELSE IF ~c.ok THEN c
                  ELSE Returned(HamtNode(hamt.isroot, hamt.bitmap,
                                         [hamt.ptrs EXCEPT ![idx + 1] = InMemory(c.rec)]))
             ELSE Returned(HamtNode(hamt.isroot, hamt.bitmap + 2 ^ hindex,
                                    InsertAt(hamt.ptrs, idx + 1,
                                             InMemory(Data(key, value)))))

\* The children left as they are, none flushed.
FlushChildrenNone(st, d, pp) == [st |-> st, ptrs |-> pp]

RECURSIVE flush_helper(_, _, _)
RECURSIVE FlushChildren(_, _, _)
\* The map over the children in Table::flush_helper: every in-memory child
\* is flushed, in order, and replaced by its position on disk.
FlushChildren(st, d, pp) ==
    IF pp = << >> THEN [st |-> st, ptrs |-> << >>]
    ELSE LET p == Head(pp)
             h == flush_helper(st, d, p.rec)
             st1 == IF p.loc = "InMemory" THEN h.st ELSE st
             rest == FlushChildren(st1, d, Tail(pp))
         IN  [st |-> rest.st,
              ptrs |-> <<IF p.loc = "InMemory" THEN OnDisk(h.pos) ELSE p>>
                           \o rest.ptrs]

\* Table::flush_helper on st = [file, ptr, ok]: the children first, then the
\* record itself at self.ptr, which advances by the bytes written.
flush_helper(st, d, rec) ==
    LET ch == IF rec.kind = "HamtNode" THEN FlushChildren(st, d, rec.ptrs)
              ELSE [st |-> st, ptrs |-> << >>]
        flushed == IF rec.kind = "HamtNode"
                   THEN HamtNode(rec.isroot, rec.bitmap, ch.ptrs)
                   ELSE rec
        curr_posn == ch.st.ptr
        w == write_bytes(flushed, d)
    IN  [st |-> [file |-> IF w.ok
                          THEN Append(ch.st.file,
                                      [offset |-> curr_posn, bytes |-> w.bytes])
                          ELSE ch.st.file,
                 ptr |-> curr_posn + w.n,
                 ok |-> ch.st.ok /\ w.ok],
         pos |-> curr_posn, rec |-> flushed]

\* Table::flush on t = [root, dirty, divider, file, ptr]; res is "panic" when
\* write_bytes panics.
flush(t) ==
    LET h == flush_helper([file |-> t.file, ptr |-> t.ptr, ok |-> TRUE],
                          t.divider, t.root)
    IN  IF ~t.dirty THEN [t |-> t, res |-> "ok"]
        ELSE IF ~h.st.ok THEN [t |-> t, res |-> "panic"]
        ELSE [t |-> [t EXCEPT !.file = h.st.file, !.ptr = h.st.ptr,
                              !.dirty = FALSE, !.root = h.rec],
              res |-> "ok"]

\* Table::insert; coin is fastrand::usize(0..1000) == 0.
insert(t, checks, key, value, coin) ==
    LET found == lookup(t, key)
        r == insert_helper(t.file, t.divider, checks, 0, t.root,
                           ikey_of(key), key, value)
        t1 == [t EXCEPT !.root = r.rec, !.dirty = TRUE]
    IN  IF found.kind = "panic" THEN [t |-> t, res |-> "panic"]
        ELSE IF found.kind # "None" THEN [t |-> t, res |-> "ok"]
        ELSE IF ~r.ok THEN [t |-> t, res |-> r.why]
        ELSE IF coin THEN flush(t1)
        ELSE [t |-> t1, res |-> "ok"]

RECURSIVE FileLen(_)
\* The length of the table file: the reserved region and the records written.
FileLen(f) ==
    IF f = << >> THEN RESERVED
    ELSE FileLen(SubSeq(f, 1, Len(f) - 1))
             + RECORD_HEADER_SIZE + f[Len(f)].bytes.length

\* The positions of the search space where a window of 16 bytes equals the
\* divider; of the windows, those at the head of a record are modelled.
posn_in_space(f, d) ==
    {i \in 1 .. Len(f) :
        Header(f[i].bytes.checksum, f[i].bytes.kind, f[i].bytes.length) = d}

\* The record at a window of the search space, whose slice ends with the file.
RecordAtWindow(f, d, i) ==
    new_borrowed(f[i].bytes, FileLen(f) - f[i].offset, d)

\* Table::open on a file that holds the divider d: res is "ok" with the table
\* opened, or "panic".
open(f, d) ==
    LET file_len == FileLen(f)
        posns == posn_in_space(f, d)
        roots == {i \in posns : RecordAtWindow(f, d, i).some
                                   /\ is_root(RecordAtWindow(f, d, i).rec)}
        posn == CHOOSE i \in roots : \A j \in roots : j <= i
        t(rec) == [root |-> rec, dirty |-> FALSE, divider |-> d, file |-> f,
                   ptr |-> file_len]
    IN  IF file_len > RESERVED
        THEN IF posns = {} THEN [t |-> t(HamtNode(TRUE, 0, << >>)), res |-> "panic"]
             ELSE IF roots = {} THEN [t |-> t(HamtNode(TRUE, 0, << >>)), res |-> "panic"]
             ELSE [t |-> t(RecordAtWindow(f, d, posn).rec), res |-> "ok"]
        ELSE [t |-> t(HamtNode(TRUE, 0, << >>)), res |-> "ok"]

(* ------------------------------ lib.rs -------------------------------- *)

\* lz4_flex::compress_prepend_size of a value below 13 bytes: the size as a
\* u32, then one block of literals: the token (length << 4) and the bytes.
compress_prepend_size(value) ==
    Cat(Cat(Run(BLen(value), 1), Run(0, 3)),
        Cat(Run(16 * BLen(value), 1), value))

\* lz4_flex::decompress_size_prepended of a block of literals: ok is FALSE
\* when the input is not the compression of a value of the prepended size.
decompress_size_prepended(c) ==
    LET size == ByteAt(c, 0)
        token == ByteAt(c, 4)
        literals == Drop(c, 5)
    IN  IF BLen(c) < 5 THEN [ok |-> FALSE, value |-> << >>]
        ELSE IF Take(Drop(c, 1), 3) # Run(0, 3) THEN [ok |-> FALSE, value |-> << >>]
        ELSE IF token # 16 * size \/ BLen(literals) # size
             THEN [ok |-> FALSE, value |-> << >>]
        ELSE [ok |-> TRUE, value |-> literals]

\* Mapping::get on the table t.
get(t, key) ==
    LET found == lookup(t, key)
        plain == decompress_size_prepended(found.value)
    IN  IF found.kind # "Some" THEN found
        ELSE IF ~plain.ok THEN Panic
        ELSE Some(plain.value, BLen(plain.value))

\* Nothing is known of a key: no insert of it returned.
NoHist == [first |-> << >>, again |-> FALSE, durable |-> FALSE]

(* ------------------------------ actions ------------------------------- *)

\* Chunk indexes of the values callers insert.
ChunkIndexes == 0 .. (NumChunks(BLen(Long2000), MAX_RECORD_BODYLEN) - 1)

\* The derived keys under which records of caller key k are stored.
KeyRecords(k) == {atomic_key(k)} \cup {chunk_key(k, i) : i \in ChunkIndexes}

\* No valid record of caller key k is in the record table.
Fresh(tab, k) ==
    \A p \in DOMAIN tab : validate(tab[p]) => tab[p].key \notin KeyRecords(k)

\* The threads that share the Mapping.
Threads == 1 .. NThreads

\* A thread outside Mapping::insert.  pc: "idle"; "waiting" in
\* self.inner.write(); "probing" in the loop of really_insert_atomic for the
\* i-th record of the value, before probe v; "writing" in Table::insert;
\* "done" at the end of Mapping::insert; "spinning" in a loop that never
\* ends.  probed: index words examined since the lock was taken; at: the
\* index word chosen; want: what Mapping::insert makes of the store found
\* when the lock was taken.
Idle ==
    [pc |-> "idle", key |-> 0, value |-> << >>, i |-> 0, v |-> 0,
     probed |-> 0, at |-> 0, want |-> << >>]

\* No thread is in a call.
NoThreads == [t \in Threads |-> Idle]

\* No slot was read.
NoCodec == [slot |-> ZeroSlot, valid |-> FALSE, out |-> ZeroSlot, done |-> FALSE]

NoCall ==
    [op |-> "none", key |-> 0, value |-> << >>, res |-> "ok", at |-> 0,
     out |-> None, fresh |-> FALSE]

Init ==
    /\ alloc_mmap = [w \in 0 .. (NWords - 1) |-> 0]
    /\ table = [p \in 0 .. (TableSlots - 1) |-> ZeroSlot]
    /\ overflow_checks \in BOOLEAN
    /\ hung = "no"
    /\ ncorrupt = 0
    /\ called = {}
    /\ first = [k \in Keys |-> << >>]
    /\ last = NoCall
    /\ root = HamtNode(TRUE, 0, << >>)
    /\ dirty = FALSE
    /\ divider = Header(0, 3, 0)
    /\ file = << >>
    /\ ptr = RESERVED
    /\ handle = "none"
    /\ hist = [k \in TableKeys |-> NoHist]
    /\ flusher = "gone"
    /\ codec = NoCodec
    /\ inner = 0
    /\ threads = NoThreads
    /\ kills = 0

\* Mapping::insert(key, value)
Insert(key, value) ==
    \E r \in {InsertIn(alloc_mmap, table, overflow_checks, key, value)} :
        /\ hung = "no"
        /\ r.res # "full"
        /\ alloc_mmap' = r.mm
        /\ table' = r.tab
        /\ hung' = IF r.res = "diverge" THEN "writer" ELSE hung
        /\ called' = called \cup {key}
        /\ first' = IF r.res = "ok" /\ first[key] = << >>
                     THEN [first EXCEPT ![key] = <<value>>]
                     ELSE first
        /\ last' = [op |-> "insert", key |-> key, value |-> value,
                    res |-> r.res, at |-> r.at, out |-> None,
                    fresh |-> Fresh(table, key)]
        /\ UNCHANGED <<overflow_checks, ncorrupt>>
        /\ UNCHANGED tvars
        /\ UNCHANGED cvars
        /\ UNCHANGED lvars

\* Mapping::get(key)
Get(key) ==
    \E r \in {GetIn(alloc_mmap, table, overflow_checks, key)} :
        /\ hung # "writer"
        /\ hung' = IF r.kind = "diverge" THEN "reader" ELSE hung
        /\ last' = [op |-> "get", key |-> key, value |-> << >>,
                    res |-> IF r.kind \in {"panic", "diverge"} THEN r.kind ELSE "ok",
                    at |-> 0, out |-> r,
                    fresh |-> Fresh(table, key)]
        /\ UNCHANGED <<alloc_mmap, table, overflow_checks, ncorrupt, called, first>>
        /\ UNCHANGED tvars
        /\ UNCHANGED cvars
        /\ UNCHANGED lvars

\* The process whose call never returns is killed and the file is opened
\* again (Mapping::open): the shared mapping of the file holds what was
\* written.
Reopen ==
    /\ hung # "no"
    /\ hung' = "no"
    /\ last' = [NoCall EXCEPT !.op = "open"]
    /\ UNCHANGED <<alloc_mmap, table, overflow_checks, ncorrupt, called, first>>
    /\ UNCHANGED tvars
    /\ UNCHANGED cvars
    /\ UNCHANGED lvars

\* A stored checksum that differs from c and is not zero.
WrongChecksum(c) == (c % (CrcMod - 1)) + 1

\* The environment damages the record slot at position p: the slot is
\* zeroed, or its stored checksum no longer matches its bytes.
Corrupt(p, zeroed) ==
    /\ ncorrupt < MaxCorrupt
    /\ hung = "no"
    /\ p \in 1 .. (TableSlots - 1)
    /\ p < alloc_mmap[0]
    /\ validate(table[p])
    /\ table' = [table EXCEPT ![p] =
                    IF zeroed THEN ZeroSlot
                    ELSE [table[p] EXCEPT
                             !.checksum = WrongChecksum(new_crc32(table[p]))]]
    /\ ncorrupt' = ncorrupt + 1
    /\ last' = [NoCall EXCEPT !.op = "corrupt", !.key = p, !.at = table[p].key]
    /\ UNCHANGED <<alloc_mmap, overflow_checks, hung, called, first>>
    /\ UNCHANGED tvars
    /\ UNCHANGED cvars
    /\ UNCHANGED lvars

Next ==
    \/ \E key \in Keys, value \in Values : Insert(key, value)
    \/ \E key \in Keys : Get(key)
    \/ Reopen

\* The mapping as its callers drive it.
Spec == Init /\ [][Next]_vars

\* The mapping where slots get damaged, with a short value and long ones
\* inserted.
NextDamage ==
    \/ \E key \in Keys, value \in {Hello, LongZ, Long2000} : Insert(key, value)
    \/ \E key \in Keys : Get(key)
    \/ Reopen
    \/ \E p \in 1 .. (TableSlots - 1), zeroed \in BOOLEAN : Corrupt(p, zeroed)

\* The mapping with an environment that damages record slots.
SpecDamage == Init /\ [][NextDamage]_vars

(* --------------------------- HAMT actions ----------------------------- *)

\* The Table behind the Mapping.
TableNow ==
    [root |-> root, dirty |-> dirty, divider |-> divider, file |-> file,
     ptr |-> ptr]

\* A Mapping is open.
Live == handle \in {"created", "reopened"}

\* What is known of a key once the table in memory is gone: what an explicit
\* flush covered.
Forget(h) ==
    [k \in TableKeys |->
        IF h[k].durable THEN [h[k] EXCEPT !.again = FALSE] ELSE NoHist]

InitTable ==
    /\ alloc_mmap = [w \in 0 .. (NWords - 1) |-> 0]
    /\ table = [p \in 0 .. (TableSlots - 1) |-> ZeroSlot]
    /\ hung = "no"
    /\ ncorrupt = 0
    /\ called = {}
    /\ first = [k \in Keys |-> << >>]
    /\ overflow_checks \in BOOLEAN
    /\ last = NoCall
    /\ divider \in Dividers
    /\ root = open(<< >>, divider).t.root
    /\ dirty = FALSE
    /\ file = << >>
    /\ ptr = RESERVED
    /\ handle = "created"
    /\ hist = [k \in TableKeys |-> NoHist]
    /\ flusher = "awake"
    /\ codec = NoCodec
    /\ inner = 0
    /\ threads = NoThreads
    /\ kills = 0

\* Mapping::insert(key, value) of lib.rs; coin is the draw of Table::insert.
MappingInsert(key, value, coin) ==
    \E r \in {insert(TableNow, overflow_checks, key,
                     compress_prepend_size(value), coin)} :
        /\ Live
        /\ Len(r.t.file) <= MaxRecords
        /\ root' = r.t.root
        /\ dirty' = r.t.dirty
        /\ file' = r.t.file
        /\ ptr' = r.t.ptr
        /\ handle' = IF r.res = "abort" THEN "none" ELSE handle
        /\ flusher' = IF r.res = "abort" THEN "gone" ELSE flusher
        /\ hist' = IF r.res = "abort" THEN Forget(hist)
                   ELSE IF r.res # "ok" THEN hist
                   ELSE IF hist[key].first = << >>
                        THEN [hist EXCEPT ![key].first = <<value>>]
                   ELSE IF hist[key].first[1] # value
                        THEN [hist EXCEPT ![key].again = TRUE]
                   ELSE hist
        /\ last' = [op |-> "insert", key |-> key, value |-> value,
                    res |-> r.res, at |-> 0, out |-> None, fresh |-> FALSE]
        /\ UNCHANGED <<divider, overflow_checks>>
        /\ UNCHANGED mvars
        /\ UNCHANGED cvars
        /\ UNCHANGED lvars

\* Mapping::get(key) of lib.rs
MappingGet(key) ==
    \E r \in {get(TableNow, key)} :
        /\ Live
        /\ last' = [op |-> "get", key |-> key, value |-> << >>,
                    res |-> IF r.kind = "panic" THEN "panic" ELSE "ok",
                    at |-> 0, out |-> r, fresh |-> FALSE]
        /\ UNCHANGED <<overflow_checks>>
        /\ UNCHANGED tvars
        /\ UNCHANGED mvars
        /\ UNCHANGED cvars
        /\ UNCHANGED lvars

\* Mapping::flush of lib.rs
MappingFlush ==
    \E r \in {flush(TableNow)} :
        /\ Live
        /\ Len(r.t.file) <= MaxRecords
        /\ root' = r.t.root
        /\ dirty' = r.t.dirty
        /\ file' = r.t.file
        /\ ptr' = r.t.ptr
        /\ hist' = IF r.res # "ok" THEN hist
                   ELSE [k \in TableKeys |->
                            IF hist[k].first # << >>
                            THEN [hist[k] EXCEPT !.durable = TRUE]
                            ELSE hist[k]]
        /\ last' = [NoCall EXCEPT !.op = "flush", !.res = r.res]
        /\ UNCHANGED <<divider, handle, flusher, overflow_checks>>
        /\ UNCHANGED mvars
        /\ UNCHANGED cvars
        /\ UNCHANGED lvars

\* A round of the "mesh-flush" thread of Mapping::open: it upgrades its
\* Weak, flushes under the write lock and goes to sleep with the Arc.
MeshFlush ==
    \E r \in {flush(TableNow)} :
        /\ Live
        /\ flusher = "awake"
        /\ r.res = "ok"
        /\ Len(r.t.file) <= MaxRecords
        /\ root' = r.t.root
        /\ dirty' = r.t.dirty
        /\ file' = r.t.file
        /\ ptr' = r.t.ptr
        /\ flusher' = "asleep"
        /\ UNCHANGED <<divider, handle, hist, last, overflow_checks>>
        /\ UNCHANGED mvars
        /\ UNCHANGED cvars
        /\ UNCHANGED lvars

\* A mesh-flush thread that sleeps on with its Arc.
MeshSleepOn == flusher = "asleep" /\ UNCHANGED vars

\* The sleep of the mesh-flush thread ends: it lets go of its Arc (and with
\* it of the Table and the file lock, if the Mapping was dropped).
MeshWake ==
    /\ flusher = "asleep"
    /\ flusher' = "awake"
    /\ UNCHANGED <<root, dirty, divider, file, ptr, handle, hist, last,
                   overflow_checks>>
    /\ UNCHANGED mvars
    /\ UNCHANGED cvars
    /\ UNCHANGED lvars

\* The mesh-flush thread finds the Mapping dropped (upgrade returns None)
\* and returns.
MeshExit ==
    /\ flusher = "awake"
    /\ ~Live
    /\ flusher' = "gone"
    /\ UNCHANGED <<root, dirty, divider, file, ptr, handle, hist, last,
                   overflow_checks>>
    /\ UNCHANGED mvars
    /\ UNCHANGED cvars
    /\ UNCHANGED lvars

\* The Mapping is dropped.  No Drop is implemented: nothing is flushed, the
\* table in memory is out of reach (root and dirty are reset), and the
\* Table, with the file and its lock, lives on for as long as the mesh-flush
\* thread holds the Arc it upgraded.
DropMapping ==
    /\ Live
    /\ handle' = "dropped"
    /\ root' = HamtNode(TRUE, 0, << >>)
    /\ dirty' = FALSE
    /\ hist' = Forget(hist)
    /\ last' = [NoCall EXCEPT !.op = "drop"]
    /\ UNCHANGED <<divider, file, ptr, flusher, overflow_checks>>
    /\ UNCHANGED mvars
    /\ UNCHANGED cvars
    /\ UNCHANGED lvars

\* The Table of a dropped Mapping is still alive, with the file locked: the
\* mesh-flush thread sleeps with its Arc.
LockHeld == handle = "dropped" /\ flusher = "asleep"

\* Mapping::open on the existing file: try_lock_exclusive fails ("io") while
\* the lock is held; a Mapping that opens spawns its mesh-flush thread.
Open ==
    \E r \in {open(file, divider)} :
        /\ handle \in {"dropped", "none"}
        /\ root' = IF ~LockHeld /\ r.res = "ok" THEN r.t.root ELSE root
        /\ dirty' = IF ~LockHeld /\ r.res = "ok" THEN r.t.dirty ELSE dirty
        /\ ptr' = IF ~LockHeld /\ r.res = "ok" THEN r.t.ptr ELSE ptr
        /\ handle' = IF LockHeld THEN handle
                     ELSE IF r.res = "ok" THEN "reopened"
                     ELSE "none"
        /\ flusher' = IF ~LockHeld /\ r.res = "ok" THEN "awake" ELSE flusher
        /\ last' = [NoCall EXCEPT !.op = "open",
                                  !.res = IF LockHeld THEN "io" ELSE r.res]
        /\ UNCHANGED <<divider, file, hist, overflow_checks>>
        /\ UNCHANGED mvars
        /\ UNCHANGED cvars
        /\ UNCHANGED lvars

\* The values a key is inserted with.
InsertValues(key) == IF key < ManyValuedKeys THEN TableValues ELSE {Hello}

NextTable ==
    \/ \E key \in TableKeys, coin \in BOOLEAN :
           \E value \in InsertValues(key) : MappingInsert(key, value, coin)
    \/ \E key \in TableKeys : MappingGet(key)
    \/ MappingFlush
    \/ MeshFlush
    \/ MeshWake
    \/ MeshExit
    \/ DropMapping
    \/ Open

\* The HAMT table as its callers and its flusher drive it.
SpecTable == InitTable /\ [][NextTable]_vars

\* One Mapping from Mapping::open to after its drop, and its thread.
NextMapping ==
    \/ \E key \in TableKeys, coin \in BOOLEAN :
           \E value \in InsertValues(key) : MappingInsert(key, value, coin)
    \/ \E key \in TableKeys : MappingGet(key)
    \/ MappingFlush
    \/ MeshFlush
    \/ MeshWake
    \/ MeshExit
    \/ DropMapping

\* The same with the mesh-flush thread scheduled: its sleep of 30 seconds
\* ends, and at the head of its loop it takes its next step.
SpecShutdown ==
    /\ InitTable
    /\ [][NextMapping]_vars
    /\ WF_vars(MeshWake)
    /\ WF_vars(MeshExit)


\* The mapping where empty values are stored: the empty value, a short one
\* and a long one are inserted.
NextEmpty ==
    \/ \E key \in Keys, value \in {<< >>, Hello, Long2000} : Insert(key, value)
    \/ \E key \in Keys : Get(key)
    \/ Reopen

\* The mapping with callers that insert empty values.
SpecEmpty == Init /\ [][NextEmpty]_vars

(* --------------------------- thread actions --------------------------- *)

\* The allocation pointer as really_insert_atomic uses it: position 0 is
\* passed over.
AllocNow == IF alloc_mmap[0] = 0 THEN 1 ELSE alloc_mmap[0]

\* The values the threads insert.
ThreadValues == {Hello, Long729}

\* The atomic inserts of Mapping::insert(key, value), in order: the single
\* record of a short value, the header and the chunks of a long one.
Atomics(key, value) ==
    IF BLen(value) <= MAX_RECORD_BODYLEN
    THEN << [dk |-> atomic_key(key), value |-> value, length |-> -1] >>
    ELSE << [dk |-> atomic_key(key), value |-> << >>, length |-> BLen(value)] >>
         \o [n \in 1 .. NumChunks(BLen(value), MAX_RECORD_BODYLEN) |->
                [dk |-> chunk_key(key, n - 1),
                 value |-> Chunk(value, MAX_RECORD_BODYLEN, n - 1),
                 length |-> -1]]

\* One turn of the loop of really_insert_atomic, at probe v: "next" is
\* `continue` or the end of the loop body.
ProbeStep(mm, tab, checks, key, v) ==
    LET pr == probe_sequence(key, v, checks)
        offset == pr.posn % NWords
        got == TableGet(tab, mm[offset])
    IN  IF ~ pr.ok THEN [kind |-> "panic", at |-> 0]
        ELSE IF v >= UsizeMod THEN [kind |-> "diverge", at |-> 0]
        ELSE IF offset = 0 THEN [kind |-> "next", at |-> 0]
        ELSE IF mm[offset] = 0 THEN [kind |-> "write", at |-> offset]
        ELSE IF ~ got.ok THEN [kind |-> "panic", at |-> 0]
        ELSE IF ~ validate(got.rec) THEN [kind |-> "write", at |-> offset]
        ELSE IF got.rec.key = key THEN [kind |-> "exists", at |-> offset]
        ELSE [kind |-> "next", at |-> offset]

\* A lock that is handed out while another thread holds it.
CanAcquireAlways == TRUE

\* RwLock::write returns: no thread holds the lock.
CanAcquire == inner = 0

\* Thread t calls Mapping::insert(key, value) and waits for the lock.
ThreadCall(t, key, value) ==
    /\ threads[t].pc = "idle"
    /\ threads' = [threads EXCEPT ![t] =
                      [Idle EXCEPT !.pc = "waiting", !.key = key,
                                   !.value = value]]
    /\ UNCHANGED <<inner, overflow_checks, last, kills>>
    /\ UNCHANGED mvars
    /\ UNCHANGED tvars
    /\ UNCHANGED cvars

\* self.inner.write() returns in thread t.
ThreadAcquire(t) ==
    /\ threads[t].pc = "waiting"
    /\ CanAcquire
    /\ inner' = t
    /\ threads' = [threads EXCEPT ![t] =
                      [@ EXCEPT !.pc = "probing", !.i = 1, !.v = 0,
                                !.probed = 0,
                                !.want = <<InsertIn(alloc_mmap, table,
                                                    overflow_checks,
                                                    threads[t].key,
                                                    threads[t].value)>>]]
    /\ UNCHANGED <<overflow_checks, last, kills>>
    /\ UNCHANGED mvars
    /\ UNCHANGED tvars
    /\ UNCHANGED cvars

\* The thread record after the i-th atomic insert of t returned.
AfterAtomic(th) ==
    IF th.i >= Len(Atomics(th.key, th.value))
    THEN [th EXCEPT !.pc = "done"]
    ELSE [th EXCEPT !.pc = "probing", !.i = th.i + 1, !.v = 0]

\* One turn of the probe loop in thread t.  A panic unwinds and drops the
\* write guard; the thread is gone and its place is free for another.
ThreadProbe(t) ==
    /\ threads[t].pc = "probing"
    /\ \E step \in {ProbeStep(alloc_mmap, table, overflow_checks,
                               Atomics(threads[t].key, threads[t].value)[threads[t].i].dk,
                               threads[t].v)} :
           /\ step.kind = "write" => AllocNow \in DOMAIN table
           /\ threads' = [threads EXCEPT ![t] =
                  IF step.kind = "panic" THEN Idle
                  ELSE IF step.kind = "diverge" THEN [@ EXCEPT !.pc = "spinning"]
                  ELSE IF step.kind = "next"
                       THEN [@ EXCEPT !.v = @ + 1,
                                      !.probed = @ + (IF step.at = 0 THEN 0 ELSE 1)]
                  ELSE IF step.kind = "exists"
                       THEN AfterAtomic([@ EXCEPT !.probed = @ + 1])
                  ELSE [@ EXCEPT !.pc = "writing", !.at = step.at,
                                 !.probed = @ + 1]]
           /\ inner' = IF step.kind = "panic" THEN 0 ELSE inner
    /\ UNCHANGED <<overflow_checks, last, kills>>
    /\ UNCHANGED mvars
    /\ UNCHANGED tvars
    /\ UNCHANGED cvars

\* Thread t writes the record, the index word and the allocation pointer.
ThreadWrite(t) ==
    /\ threads[t].pc = "writing"
    /\ table' = TableInsert(table, AllocNow,
                    new_record(Atomics(threads[t].key, threads[t].value)[threads[t].i].dk,
                               IF Atomics(threads[t].key, threads[t].value)[threads[t].i].length = -1
                               THEN BLen(Atomics(threads[t].key, threads[t].value)[threads[t].i].value)
                               ELSE Atomics(threads[t].key, threads[t].value)[threads[t].i].length,
                               Atomics(threads[t].key, threads[t].value)[threads[t].i].value))
    /\ alloc_mmap' = [alloc_mmap EXCEPT ![threads[t].at] = AllocNow,
                                        ![0] = AllocNow + 1]
    /\ threads' = [threads EXCEPT ![t] = AfterAtomic(@)]
    /\ UNCHANGED <<inner, overflow_checks, last, kills, hung, ncorrupt, called, first>>
    /\ UNCHANGED tvars
    /\ UNCHANGED cvars

\* Mapping::insert returns in thread t: the write guard is dropped.
ThreadReturn(t) ==
    /\ threads[t].pc = "done"
    /\ inner' = 0
    /\ threads' = [threads EXCEPT ![t] = Idle]
    /\ UNCHANGED <<overflow_checks, last, kills>>
    /\ UNCHANGED mvars
    /\ UNCHANGED tvars
    /\ UNCHANGED cvars

NextThreads ==
    \/ \E t \in Threads, key \in Keys, value \in ThreadValues :
           ThreadCall(t, key, value)
    \/ \E t \in Threads : ThreadAcquire(t)
    \/ \E t \in Threads : ThreadProbe(t)
    \/ \E t \in Threads : ThreadWrite(t)
    \/ \E t \in Threads : ThreadReturn(t)

\* The threads of a process that insert through one Mapping.
SpecThreads == Init /\ [][NextThreads]_vars

(* ------------------- threads and a killed process -------------------- *)

\* self.table.insert(ptr + offset, &rec) in thread t.
ThreadWriteRecord(t) ==
    /\ threads[t].pc = "writing"
    /\ table' = TableInsert(table, AllocNow,
                    new_record(Atomics(threads[t].key, threads[t].value)[threads[t].i].dk,
                               IF Atomics(threads[t].key, threads[t].value)[threads[t].i].length = -1
                               THEN BLen(Atomics(threads[t].key, threads[t].value)[threads[t].i].value)
                               ELSE Atomics(threads[t].key, threads[t].value)[threads[t].i].length,
                               Atomics(threads[t].key, threads[t].value)[threads[t].i].value))
    /\ threads' = [threads EXCEPT ![t].pc = "record written"]
    /\ UNCHANGED <<alloc_mmap, inner, overflow_checks, last, kills, hung, ncorrupt,
                   called, first>>
    /\ UNCHANGED tvars
    /\ UNCHANGED cvars

\* *offset_ptr = ((ptr + offset) as u64).to_le_bytes() in thread t.
ThreadWriteWord(t) ==
    /\ threads[t].pc = "record written"
    /\ alloc_mmap' = [alloc_mmap EXCEPT ![threads[t].at] = AllocNow]
    /\ threads' = [threads EXCEPT ![t].pc = "word written"]
    /\ UNCHANGED <<table, inner, overflow_checks, last, kills, hung, ncorrupt,
                   called, first>>
    /\ UNCHANGED tvars
    /\ UNCHANGED cvars

\* self.alloc_mmap[0..8].copy_from_slice(ptr + offset + 1) in thread t.
ThreadWritePointer(t) ==
    /\ threads[t].pc = "word written"
    /\ alloc_mmap' = [alloc_mmap EXCEPT ![0] = AllocNow + 1]
    /\ threads' = [threads EXCEPT ![t] = AfterAtomic(@)]
    /\ UNCHANGED <<table, inner, overflow_checks, last, kills, hung, ncorrupt,
                   called, first>>
    /\ UNCHANGED tvars
    /\ UNCHANGED cvars

\* The process is killed while some thread is in a call, and the file is
\* opened again (Mapping::open): the shared mapping of the file holds every
\* store made so far, the threads and the lock are new.
Kill ==
    /\ \E t \in Threads : threads[t].pc # "idle"
    /\ kills < MaxKills
    /\ threads' = NoThreads
    /\ inner' = 0
    /\ kills' = kills + 1
    /\ UNCHANGED <<overflow_checks, last>>
    /\ UNCHANGED mvars
    /\ UNCHANGED tvars
    /\ UNCHANGED cvars

NextCrash ==
    \/ \E t \in Threads, key \in Keys, value \in ThreadValues :
           ThreadCall(t, key, value)
    \/ \E t \in Threads : ThreadAcquire(t)
    \/ \E t \in Threads : ThreadProbe(t)
    \/ \E t \in Threads : ThreadWriteRecord(t)
    \/ \E t \in Threads : ThreadWriteWord(t)
    \/ \E t \in Threads : ThreadWritePointer(t)
    \/ \E t \in Threads : ThreadReturn(t)
    \/ Kill

\* Threads inserting on one Mapping, store by store, in a process that may
\* be killed at any point.
SpecCrash == Init /\ [][NextCrash]_vars

(* -------------- threads on the HAMT Mapping and its lock ------------- *)

\* RwLock::write returns: no writer holds the lock (inner = 0) and no
\* reader does (no thread is in its get).
CanWrite == inner = 0 /\ \A t \in Threads : threads[t].pc # "in get"

\* Thread t calls Mapping::get, insert or flush of lib.rs and waits for the
\* lock.
CallerCall(t, c) ==
    /\ Live
    /\ threads[t].pc = "idle"
    /\ threads' = [threads EXCEPT ![t] =
                      [Idle EXCEPT !.pc = "waiting " \o c.op, !.key = c.key,
                                   !.value = c.value]]
    /\ UNCHANGED <<inner, kills, overflow_checks, last>>
    /\ UNCHANGED mvars
    /\ UNCHANGED tvars
    /\ UNCHANGED cvars

\* self.inner.read() returns in thread t: no writer holds the lock.
CallerRead(t) ==
    /\ threads[t].pc = "waiting get"
    /\ inner = 0
    /\ threads' = [threads EXCEPT ![t].pc = "in get"]
    /\ UNCHANGED <<inner, kills, overflow_checks, last>>
    /\ UNCHANGED mvars
    /\ UNCHANGED tvars
    /\ UNCHANGED cvars

\* self.inner.write() returns in thread t.
CallerWrite(t) ==
    /\ threads[t].pc \in {"waiting insert", "waiting flush"}
    /\ CanWrite
    /\ inner' = t
    /\ threads' = [threads EXCEPT ![t].pc =
                      IF threads[t].pc = "waiting insert" THEN "in insert"
                      ELSE "in flush"]
    /\ UNCHANGED <<kills, overflow_checks, last>>
    /\ UNCHANGED mvars
    /\ UNCHANGED tvars
    /\ UNCHANGED cvars

\* lookup and decompress_size_prepended run in thread t under its read
\* guard, which is dropped when the statement ends or the panic unwinds.
CallerGet(t) ==
    /\ threads[t].pc = "in get"
    /\ \E r \in {get(TableNow, threads[t].key)} :
            /\ threads' = [threads EXCEPT ![t] = Idle]
            /\ UNCHANGED <<inner, kills, overflow_checks, last>>
            /\ UNCHANGED mvars
            /\ UNCHANGED tvars
            /\ UNCHANGED cvars

\* Table::insert runs in thread t under its write guard, which is dropped
\* when the statement ends or the panic unwinds; when the recursion of
\* insert_helper overflows the stack the process is aborted with the guard
\* held, and every thread goes with it.
CallerInsert(t, coin) ==
    /\ threads[t].pc = "in insert"
    /\ \E r \in {insert(TableNow, overflow_checks, threads[t].key,
                         compress_prepend_size(threads[t].value), coin)} :
            /\ root' = r.t.root
            /\ dirty' = r.t.dirty
            /\ file' = r.t.file
            /\ ptr' = r.t.ptr
            /\ handle' = IF r.res = "abort" THEN "none" ELSE handle
            /\ flusher' = IF r.res = "abort" THEN "gone" ELSE flusher
            /\ threads' = IF r.res = "abort" THEN NoThreads
                          ELSE [threads EXCEPT ![t] = Idle]
            /\ inner' = 0
            /\ UNCHANGED <<divider, hist, kills, overflow_checks, last>>
            /\ UNCHANGED mvars
            /\ UNCHANGED cvars

\* Table::flush runs in thread t under its write guard.
CallerFlush(t) ==
    /\ threads[t].pc = "in flush"
    /\ \E r \in {flush(TableNow)} :
            /\ root' = r.t.root
            /\ dirty' = r.t.dirty
            /\ file' = r.t.file
            /\ ptr' = r.t.ptr
            /\ threads' = [threads EXCEPT ![t] = Idle]
            /\ inner' = 0
            /\ UNCHANGED <<divider, handle, hist, flusher, kills, overflow_checks,
                           last>>
            /\ UNCHANGED mvars
            /\ UNCHANGED cvars

\* inner_weak.upgrade() returns Some in the mesh-flush thread, which then
\* waits in inner.write().
MeshUpgrade ==
    /\ Live
    /\ flusher = "awake"
    /\ flusher' = "waiting"
    /\ UNCHANGED <<root, dirty, divider, file, ptr, handle, hist, last,
                   overflow_checks>>
    /\ UNCHANGED mvars
    /\ UNCHANGED cvars
    /\ UNCHANGED lvars

\* inner.write() returns in the mesh-flush thread, the holder NThreads + 1
\* of the lock.
MeshWrite ==
    /\ flusher = "waiting"
    /\ CanWrite
    /\ inner' = NThreads + 1
    /\ flusher' = "flushing"
    /\ UNCHANGED <<threads, kills>>
    /\ UNCHANGED <<root, dirty, divider, file, ptr, handle, hist, last,
                   overflow_checks>>
    /\ UNCHANGED mvars
    /\ UNCHANGED cvars

\* Table::flush runs in the mesh-flush thread; its write guard, a temporary
\* of the statement, is dropped before std::thread::sleep is called.
MeshFlushed ==
    /\ flusher = "flushing"
    /\ \E r \in {flush(TableNow)} :
            /\ root' = r.t.root
            /\ dirty' = r.t.dirty
            /\ file' = r.t.file
            /\ ptr' = r.t.ptr
            /\ inner' = 0
            /\ flusher' = "asleep"
            /\ UNCHANGED <<threads, kills>>
            /\ UNCHANGED <<divider, handle, hist, last, overflow_checks>>
            /\ UNCHANGED mvars
            /\ UNCHANGED cvars

\* The calls are get and insert of two keys whose low 16 bytes agree, and
\* flush.
NextLock ==
    \/ \E t \in Threads, k \in {0, IKeyMod} :
            \/ CallerCall(t, [op |-> "get", key |-> k, value |-> << >>])
            \/ CallerCall(t, [op |-> "insert", key |-> k, value |-> Hello])
    \/ \E t \in Threads :
            CallerCall(t, [op |-> "flush", key |-> 0, value |-> << >>])
    \/ \E t \in Threads : CallerRead(t)
    \/ \E t \in Threads : CallerWrite(t)
    \/ \E t \in Threads : CallerGet(t)
    \/ \E t \in Threads, coin \in BOOLEAN : CallerInsert(t, coin)
    \/ \E t \in Threads : CallerFlush(t)
    \/ MeshUpgrade
    \/ MeshWrite
    \/ MeshFlushed
    \/ MeshWake

\* Threads calling one Mapping of lib.rs, and its mesh-flush thread, with
\* the threads scheduled and the lock handed out fairly (the RwLock of
\* parking_lot): a thread that waits for a lock that is free again and again
\* gets it, and a thread that holds a guard runs on.  The step of a thread
\* under its guard is enabled exactly while it holds the guard and ends with
\* the guard dropped, so weak fairness of that step is that the thread is
\* without a guard again and again; the same for the flush of the mesh-flush
\* thread.
SpecLockFair ==
    /\ InitTable /\ [][NextLock]_vars
    /\ \A t \in Threads : SF_vars(CallerRead(t) \/ CallerWrite(t))
    /\ \A t \in Threads :
            []<>(threads[t].pc \notin {"in get", "in insert", "in flush"})
    /\ SF_vars(MeshWrite)
    /\ []<>(flusher # "flushing")

(* ------------------------- either mapping ----------------------------- *)

\* No HAMT table was opened: the process runs the indexed mapping.
NoTable ==
    /\ handle = "none"
    /\ flusher = "gone"
    /\ root = HamtNode(TRUE, 0, << >>)
    /\ ~ dirty
    /\ file = << >>

InitEither == Init \/ InitTable

\* A process runs one of the two mappings on its file.
NextEither ==
    \/ NoTable /\ Next
    \/ ~ NoTable /\ NextTable

\* The indexed mapping or the HAMT table, as its callers drive it.
SpecEither == InitEither /\ [][NextEither]_vars

(* --------------------------- codec actions ---------------------------- *)

\* Derived keys of the slots read.
CodecKeys == {1, 2}

\* Length fields of the slots read: of an empty, a one-byte, a short and a
\* full record, and of the headers of long values.
CodecLengths ==
    {0, 1, 5, MAX_RECORD_BODYLEN, MAX_RECORD_BODYLEN + 1, 2000}

\* Bodies of the slots read: zeros, values followed by zeros, a value
\* followed by bytes that are not zero, and a full body.
CodecBodies ==
    {Run(0, MAX_RECORD_BODYLEN),
     Cat(ZeroCrcValue(1), Run(0, MAX_RECORD_BODYLEN - 1)),
     Cat(Hello, Run(0, MAX_RECORD_BODYLEN - 5)),
     Cat(Hello, Run(9, MAX_RECORD_BODYLEN - 5)),
     Run(97, MAX_RECORD_BODYLEN)}

\* The slots read: every key, length and body above, stored with the
\* checksum of its bytes, with a zero checksum or with another checksum.
CodecSlots ==
    {[checksum |-> c, key |-> k, length |-> n, body |-> b] :
        k \in CodecKeys, n \in CodecLengths, b \in CodecBodies,
        c \in 0 .. (CrcMod - 1)}

\* The slots read whose stored checksum is the computed one, zero, or the
\* computed one changed.
CodecInputs ==
    {s \in CodecSlots :
        s.checksum \in {Crc32(s.key, s.length, s.body), 0,
                        WrongChecksum(Crc32(s.key, s.length, s.body))}}

InitCodec ==
    /\ alloc_mmap = [w \in 0 .. (NWords - 1) |-> 0]
    /\ table = [p \in 0 .. (TableSlots - 1) |-> ZeroSlot]
    /\ hung = "no"
    /\ ncorrupt = 0
    /\ called = {}
    /\ first = [k \in Keys |-> << >>]
    /\ overflow_checks = FALSE
    /\ last = NoCall
    /\ root = HamtNode(TRUE, 0, << >>)
    /\ dirty = FALSE
    /\ divider = Header(0, 3, 0)
    /\ file = << >>
    /\ ptr = RESERVED
    /\ handle = "none"
    /\ hist = [k \in TableKeys |-> NoHist]
    /\ flusher = "gone"
    /\ codec \in {[NoCodec EXCEPT !.slot = s] : s \in CodecInputs}
    /\ inner = 0
    /\ threads = NoThreads
    /\ kills = 0

\* Record(slot).validate(), and for the record r it returns
\* new_record(r.key(), r.length(), r.value()).
Recode ==
    /\ ~codec.done
    /\ codec' = [codec EXCEPT
                    !.valid = validate(codec.slot),
                    !.out = IF validate(codec.slot)
                            THEN new_record(codec.slot.key, codec.slot.length,
                                            RecordValue(codec.slot))
                            ELSE ZeroSlot,
                    !.done = TRUE]
    /\ UNCHANGED <<overflow_checks, last>>
    /\ UNCHANGED mvars
    /\ UNCHANGED tvars
    /\ UNCHANGED lvars

NextCodec == Recode

\* The record codec applied to the slots a file may hold.
SpecCodec == InitCodec /\ [][NextCodec]_vars

(* ------------------- the HAMT record codec, alone -------------------- *)

\* Offsets a pointer of a written node may hold.
RecordOffsets == {RESERVED, RESERVED + 64}

\* Values of the data records written: none, five bytes, and the 32 bytes
\* of key 0.
RecordValues == {<< >>, Hello, KeyBytes(0)}

\* The records written: data records, and HAMT nodes, root or not, whose
\* pointers are all on disk and as many as the bitmap has bits.
RecordInputs ==
    {Data(k, v) : k \in TableKeys, v \in RecordValues} \cup
    {HamtNode(r, 0, << >>) : r \in BOOLEAN} \cup
    {HamtNode(r, b, <<OnDisk(o)>>) :
        r \in BOOLEAN, b \in {1, 2}, o \in RecordOffsets} \cup
    {HamtNode(r, 3, <<OnDisk(o1), OnDisk(o2)>>) :
        r \in BOOLEAN, o1 \in RecordOffsets, o2 \in RecordOffsets}

\* The dividers given: each reads as a checksum, a kind and a length; some
\* are the head of no record (kind 3), the others have the kind and the
\* length of a root with one child or of a data record of five bytes.
RecordDividers ==
    {Header(c, k, n) :
        c \in 0 .. (SipMod - 1),
        k \in {RECORD_KIND_DATA, RECORD_KIND_HAMR, 3},
        n \in {16, 32 + 5}}

\* Nothing was written yet: the record and the divider to write it with.
CodecOf(rec, d) ==
    [rec |-> rec, d |-> d, stage |-> "new", bytes |-> ZeroBytes, n |-> 0,
     out |-> NoRecord]

InitRecord ==
    /\ alloc_mmap = [w \in 0 .. (NWords - 1) |-> 0]
    /\ table = [p \in 0 .. (TableSlots - 1) |-> ZeroSlot]
    /\ hung = "no"
    /\ ncorrupt = 0
    /\ called = {}
    /\ first = [k \in Keys |-> << >>]
    /\ overflow_checks = FALSE
    /\ last = NoCall
    /\ root = HamtNode(TRUE, 0, << >>)
    /\ dirty = FALSE
    /\ divider = Header(0, 3, 0)
    /\ file = << >>
    /\ ptr = RESERVED
    /\ handle = "none"
    /\ hist = [k \in TableKeys |-> NoHist]
    /\ flusher = "gone"
    /\ codec \in {CodecOf(rec, d) : rec \in RecordInputs, d \in RecordDividers}
    /\ inner = 0
    /\ threads = NoThreads
    /\ kills = 0

\* rec.write_bytes(d, out)
WriteBytes ==
    /\ codec.stage = "new"
    /\ codec' = [codec EXCEPT
                    !.stage = "written",
                    !.bytes = write_bytes(codec.rec, codec.d).bytes,
                    !.n = write_bytes(codec.rec, codec.d).n]
    /\ UNCHANGED <<overflow_checks, last>>
    /\ UNCHANGED mvars
    /\ UNCHANGED tvars
    /\ UNCHANGED lvars

\* The eight bytes of the checksum of the bytes written are changed.
DamageChecksum ==
    /\ codec.stage = "written"
    /\ \E c \in (0 .. (SipMod - 1)) \ {codec.bytes.checksum} :
           codec' = [codec EXCEPT !.stage = "damaged", !.bytes.checksum = c]
    /\ UNCHANGED <<overflow_checks, last>>
    /\ UNCHANGED mvars
    /\ UNCHANGED tvars
    /\ UNCHANGED lvars

\* Record::new_borrowed(b, d) on the slice b of the n bytes written.
NewBorrowed ==
    /\ codec.stage \in {"written", "damaged"}
    /\ codec' = [codec EXCEPT
                    !.stage = IF codec.stage = "written" THEN "read"
                              ELSE "read damaged",
                    !.out = new_borrowed(codec.bytes, codec.n, codec.d)]
    /\ UNCHANGED <<overflow_checks, last>>
    /\ UNCHANGED mvars
    /\ UNCHANGED tvars
    /\ UNCHANGED lvars

NextRecord == WriteBytes \/ DamageChecksum \/ NewBorrowed

\* Record::write_bytes and Record::new_borrowed applied one after the other.
SpecRecord == InitRecord /\ [][NextRecord]_vars

TypeOK ==
    /\ alloc_mmap \in [0 .. (NWords - 1) -> 0 .. TableSlots]
    /\ hung \in {"no", "reader", "writer"}
    /\ called \subseteq Keys
    /\ \A k \in Keys : first[k] = << >> \/ first[k][1] \in Values

(* ------------------------------ claims -------------------------------- *)

\* Mapping::get on the current store.
GetNow(k) == GetIn(alloc_mmap, table, overflow_checks, k)

\* The last call was an insert that returned.
Inserted == last.op = "insert" /\ last.res = "ok"

\* The records Mapping::insert(k, v) encodes: the single record of a short
\* value, the header and the chunks of a long one.
RecordsOf(k, v) ==
    IF BLen(v) <= MAX_RECORD_BODYLEN
    THEN {new_record(atomic_key(k), BLen(v), v)}
    ELSE {new_record(atomic_key(k), BLen(v), << >>)} \cup
         {new_record(chunk_key(k, i),
                     BLen(Chunk(v, MAX_RECORD_BODYLEN, i)),
                     Chunk(v, MAX_RECORD_BODYLEN, i)) :
              i \in 0 .. (NumChunks(BLen(v), MAX_RECORD_BODYLEN) - 1)}

\* Every record of (k, v) is encoded with a non-zero checksum.
NonZeroChecksums(k, v) == \A rec \in RecordsOf(k, v) : rec.checksum # 0

\* C1 as claimed: after insert(k, v) of a value of at most BODY_MAX bytes
\* returns on a store holding no record of k, get(k) returns Some(v).
C1_ReadAfterWrite ==
    (Inserted /\ last.fresh /\ BLen(last.value) <= MAX_RECORD_BODYLEN)
        => (GetNow(last.key).kind = "Some" /\ GetNow(last.key).value = last.value)

\* C1 amended: the same, for values whose record is encoded with a non-zero
\* CRC-32 (validate rejects a stored checksum of zero).
C1_ReadAfterWriteNonZero ==
    (/\ Inserted /\ last.fresh
     /\ BLen(last.value) <= MAX_RECORD_BODYLEN
     /\ NonZeroChecksums(last.key, last.value))
        => (GetNow(last.key).kind = "Some" /\ GetNow(last.key).value = last.value)

\* C1 witness: a short value with a non-zero checksum was inserted for a
\* fresh key after other records, and get returns it.
C1_Witness ==
    /\ Inserted /\ last.fresh
    /\ BLen(last.value) <= MAX_RECORD_BODYLEN
    /\ NonZeroChecksums(last.key, last.value)
    /\ alloc_mmap[0] > 2
    /\ GetNow(last.key) = Some(last.value, BLen(last.value))

\* The chunk records of a long value read back slice by slice.
ChunksReadBack(k, v) ==
    \A i \in 0 .. (NumChunks(BLen(v), MAX_RECORD_BODYLEN) - 1) :
        LET got == get_atomic(alloc_mmap, table, overflow_checks, chunk_key(k, i))
        IN  got.kind = "Some" /\ got.value = Chunk(v, MAX_RECORD_BODYLEN, i)

\* C2 as claimed: after insert(k, v) of a value longer than BODY_MAX returns
\* for a key not yet present, get(k) returns a buffer of |v| bytes whose
\* i-th slice is the body of the record at ChunkKey(k, i): the buffer is v.
C2_ChunkedRoundTrip ==
    (Inserted /\ last.fresh /\ BLen(last.value) > MAX_RECORD_BODYLEN)
        => (/\ GetNow(last.key).kind = "Some"
            /\ BLen(GetNow(last.key).value) = BLen(last.value)
            /\ GetNow(last.key).value = last.value
            /\ ChunksReadBack(last.key, last.value))

\* C2 amended: the same, for values whose header and chunk records are all
\* encoded with a non-zero CRC-32.
C2_ChunkedRoundTripNonZero ==
    (/\ Inserted /\ last.fresh
     /\ BLen(last.value) > MAX_RECORD_BODYLEN
     /\ NonZeroChecksums(last.key, last.value))
        => (/\ GetNow(last.key).kind = "Some"
            /\ BLen(GetNow(last.key).value) = BLen(last.value)
            /\ GetNow(last.key).value = last.value
            /\ ChunksReadBack(last.key, last.value))

\* C2 witness: a three-chunk value was inserted for a fresh key and reads
\* back whole.
C2_Witness ==
    /\ Inserted /\ last.fresh
    /\ NumChunks(BLen(last.value), MAX_RECORD_BODYLEN) = 3
    /\ NonZeroChecksums(last.key, last.value)
    /\ GetNow(last.key) = Some(last.value, BLen(last.value))
    /\ ChunksReadBack(last.key, last.value)

\* The slot an index word w points at (the zero slot when it points nowhere).
SlotAt(w) == TableGet(table, alloc_mmap[w]).rec

\* The probe sequence of the derived key dk is exhausted: every index word
\* points at a valid record of another key, so that no probe finds an
\* invalid slot or a slot holding dk.
Exhausted(dk) ==
    \A w \in 1 .. (NWords - 1) :
        alloc_mmap[w] # 0 /\ validate(SlotAt(w)) /\ SlotAt(w).key # dk

\* C6 as claimed: an atomic insert whose probe sequence is exhausted fails
\* with the capacity error, which the caller of insert receives (last.at is
\* the derived key of the atomic insert that ended the call).
C6_CapacityError ==
    (last.op = "insert" /\ last.at # 0 /\ Exhausted(last.at))
        => last.res = "capacity"

\* C7 as claimed: get of a key insert was never called with returns not
\* found (it terminates, and it does not fail).
C7_NegativeLookup ==
    (last.op = "get" /\ last.key \notin called) => last.out = None

\* get_atomic of the header record of caller key k on the current store.
HeaderNow(k) == get_atomic(alloc_mmap, table, overflow_checks, atomic_key(k))

\* A valid record of chunk i of caller key k is in the record table.
ChunkStored(k, i) ==
    \E p \in DOMAIN table :
        validate(table[p]) /\ table[p].key = chunk_key(k, i)

\* C8 as claimed: when the header of k is present with a length above
\* BODY_MAX and the record of one of its chunks is absent or invalid, get(k)
\* returns not found.
C8_PartialReadsAbsent ==
    \A k \in Keys :
        (/\ HeaderNow(k).kind = "Some"
         /\ HeaderNow(k).length > MAX_RECORD_BODYLEN
         /\ \E i \in 0 .. (NumChunks(HeaderNow(k).length, MAX_RECORD_BODYLEN) - 1) :
                ~ ChunkStored(k, i))
            => GetNow(k) = None

\* get_atomic of a derived key on the current store.
AtomicNow(dk) == get_atomic(alloc_mmap, table, overflow_checks, dk)

\* The stored checksum of a slot differs from the computed one.
Mismatch(rec) ==
    rec.checksum # new_crc32(rec) /\ rec.checksum # legacy_crc32(rec)

\* The index word read by the v-th probe of the derived key dk.
ProbeWord(dk, v) == probe_sequence(dk, v, overflow_checks).posn % NWords

\* The v-th probe of dk is made and the lookup goes on to the next one: the
\* word is the allocation pointer, or it points at a valid record of
\* another key.
PassedOver(dk, v) ==
    /\ probe_sequence(dk, v, overflow_checks).ok
    /\ \/ ProbeWord(dk, v) = 0
       \/ /\ alloc_mmap[ProbeWord(dk, v)] # 0
          /\ validate(SlotAt(ProbeWord(dk, v)))
          /\ SlotAt(ProbeWord(dk, v)).key # dk

\* The v-th probe of dk is reached: all probes before it are passed over.
Reached(dk, v) ==
    /\ \A u \in 0 .. (v - 1) : PassedOver(dk, u)
    /\ probe_sequence(dk, v, overflow_checks).ok
    /\ ProbeWord(dk, v) # 0

\* The probe path of dk reaches a slot whose stored checksum does not equal
\* the computed one, dk not being placed at an earlier position of the path.
ReachesCorrupt(dk) ==
    \E w \in 1 .. (NWords - 1) :
        /\ alloc_mmap[w] \in DOMAIN table \ {0}
        /\ Mismatch(SlotAt(w))
        /\ \E v \in 0 .. (UsizeMod - 1) :
               ProbeWord(dk, v) = w /\ Reached(dk, v)

\* The derived keys of all caller keys.
DerivedKeys == UNION {KeyRecords(k) : k \in Keys}

\* Chunk i of caller key k reads back with the number of bytes that
\* Mapping::get copies for a value of n bytes.
ChunkReads(k, n, i) ==
    /\ AtomicNow(chunk_key(k, i)).kind = "Some"
    /\ BLen(AtomicNow(chunk_key(k, i)).value)
           = (IF (i + 1) * MAX_RECORD_BODYLEN <= n
              THEN MAX_RECORD_BODYLEN ELSE n - i * MAX_RECORD_BODYLEN)

\* C10: a lookup whose probe path reaches a slot whose stored checksum does
\* not equal the computed one returns not found (no error, no panic): the
\* atomic lookup of every derived key, get of a key whose header lookup
\* reaches such a slot, and get of a long value whose first chunk that does
\* not read back reaches such a slot.
C10_CorruptionReadsAbsent ==
    /\ \A dk \in DerivedKeys : ReachesCorrupt(dk) => AtomicNow(dk) = None
    /\ \A k \in Keys : ReachesCorrupt(atomic_key(k)) => GetNow(k) = None
    /\ \A k \in Keys :
           (/\ HeaderNow(k).kind = "Some"
            /\ HeaderNow(k).length > MAX_RECORD_BODYLEN
            /\ \E i \in 0 .. (NumChunks(HeaderNow(k).length, MAX_RECORD_BODYLEN) - 1) :
                   /\ \A j \in 0 .. (i - 1) : ChunkReads(k, HeaderNow(k).length, j)
                   /\ ReachesCorrupt(chunk_key(k, i)))
               => GetNow(k) = None

\* C10 witness: get of a key whose value had been stored returned not found
\* because its header lookup, after passing over the record of another key,
\* reached a slot whose stored checksum is wrong.
C10_Witness ==
    /\ last.op = "get" /\ last.out = None
    /\ first[last.key] # << >>
    /\ \E v \in 1 .. (UsizeMod - 1) :
           /\ Reached(atomic_key(last.key), v)
           /\ \E u \in 0 .. (v - 1) : ProbeWord(atomic_key(last.key), u) # 0
           /\ alloc_mmap[ProbeWord(atomic_key(last.key), v)] \in DOMAIN table \ {0}
           /\ Mismatch(SlotAt(ProbeWord(atomic_key(last.key), v)))
           /\ SlotAt(ProbeWord(atomic_key(last.key), v)).key = atomic_key(last.key)

\* Mapping::get on the store after the step.
GetNext(k) == GetIn(alloc_mmap', table', overflow_checks', k)

\* The chunk keys of a value of n bytes stored under caller key k.
ChunkKeys(k, n) ==
    {chunk_key(k, i) : i \in 0 .. (NumChunks(n, MAX_RECORD_BODYLEN) - 1)}

\* The step leaves every valid record, and every index word that points at
\* one, as it was.
ValidUntouched ==
    /\ \A p \in DOMAIN table : validate(table[p]) => table'[p] = table[p]
    /\ \A w \in 1 .. (NWords - 1) :
           (alloc_mmap[w] # 0 /\ validate(SlotAt(w)))
               => alloc_mmap'[w] = alloc_mmap[w]

FoundAt(dk, p) ==
    \E v \in 0 .. (UsizeMod - 1) :
        /\ Reached(dk, v)
        /\ alloc_mmap[ProbeWord(dk, v)] = p
        /\ validate(SlotAt(ProbeWord(dk, v)))
        /\ SlotAt(ProbeWord(dk, v)).key = dk

\* The header of k and all chunks of k but chunk i read back as those of the
\* long value v, and the lookup of chunk i returns not found.
OneChunkLost(k, v, i) ==
    /\ BLen(v) > MAX_RECORD_BODYLEN
    /\ HeaderNow(k).kind = "Some"
    /\ HeaderNow(k).length = BLen(v)
    /\ i \in 0 .. (NumChunks(BLen(v), MAX_RECORD_BODYLEN) - 1)
    /\ AtomicNow(chunk_key(k, i)) = None
    /\ \A j \in 0 .. (NumChunks(BLen(v), MAX_RECORD_BODYLEN) - 1) \ {i} :
           AtomicNow(chunk_key(k, j)).kind = "Some"
               /\ AtomicNow(chunk_key(k, j)).value = Chunk(v, MAX_RECORD_BODYLEN, j)

TableGetNow(k) == get(TableNow, k)

\* The value of the first insert of k that returned, as get is to return it.
FirstValue(k) == Some(hist[k].first[1], BLen(hist[k].first[1]))

\* Some insert returned and an explicit flush returned after it.
SomeDurable == \E k \in TableKeys : hist[k].durable

\* C3 as claimed, against the HAMT table: once insert(k, v) has returned and
\* a following flush has returned, an open of the file after the handle was
\* dropped (one that obtains the file lock) returns a handle, and get(k) on
\* a reopened handle yields Some(v).
C3_DurableAcrossReopen ==
    /\ (last.op = "open" /\ last.res # "io" /\ SomeDurable) => last.res = "ok"
    /\ (last.op = "get" /\ handle = "reopened" /\ hist[last.key].durable)
           => last.out = FirstValue(last.key)

\* C4 as claimed, against the HAMT table: an insert(k, v) that directly
\* follows an insert(k, v) that returned also returns, and it leaves root,
\* the dirty flag, the write position and the file unchanged.
C4_IdempotentInsert ==
    [][(/\ last.op = "insert" /\ last.res = "ok"
        /\ last'.op = "insert"
        /\ last'.key = last.key /\ last'.value = last.value)
           => (/\ last'.res = "ok"
               /\ root' = root /\ dirty' = dirty
               /\ ptr' = ptr /\ file' = file)]_vars

\* C5 as claimed, against the HAMT table: once insert(k, v1) has returned and
\* an insert(k, v2) with v2 # v1 has returned on the same handle, get(k)
\* returns Some(v1).
C5_FirstWriteWins ==
    (last.op = "get" /\ hist[last.key].again)
        => last.out = FirstValue(last.key)

\* C11 as claimed, against the HAMT table: on the handle that created the
\* file, once insert(k, v) has returned for a key not present before, every
\* get(k) that begins afterwards, on whichever thread, returns Some(v) (get
\* and insert run under the one lock of the Mapping, so the calls of all
\* threads are the steps of the model).
C11_Visibility ==
    (last.op = "get" /\ handle = "created" /\ hist[last.key].first # << >>)
        => last.out = FirstValue(last.key)

(* ------------------ claims, threads on one handle -------------------- *)

\* Mapping::insert(k, v) run after the call that left the store st: the call
\* never gets the lock when that call never returned.
ThenInsert(st, k, v) ==
    IF st.res = "diverge" THEN st
    ELSE InsertIn(st.mm, st.tab, overflow_checks, k, v)

\* What get(k) shows of the store st: it never gets the lock when a call
\* that holds it never returned.
Shows(st, k) ==
    IF st.res = "diverge" THEN Diverge
    ELSE GetIn(st.mm, st.tab, overflow_checks, k)

\* The store after the step, as left by a call with the outcome res.
StoreNext(res) == [mm |-> alloc_mmap', tab |-> table', res |-> res, at |-> 0]

\* C12 as claimed, on the indexed mapping: inserts of two different keys
\* leave a store that shows the same for every key in whichever order the
\* lock serialises them: insert(k1, v1) as the step takes it followed by
\* insert(k2, v2), against insert(k2, v2) followed by insert(k1, v1) from
\* the store before the step.
C12_DisjointKeysSerializable ==
    [][(last'.op = "insert" /\ hung = "no")
          => \A k2 \in Keys \ {last'.key}, v2 \in Values :
                LET here == ThenInsert(StoreNext(last'.res), k2, v2)
                    there == ThenInsert(
                                 InsertIn(alloc_mmap, table, overflow_checks, k2, v2),
                                 last'.key, last'.value)
                IN  (here.res # "full" /\ there.res # "full")
                        => \A k \in Keys : Shows(here, k) = Shows(there, k)]_vars

\* C13 as claimed, on the indexed mapping: a get(k) that takes the lock next
\* after an insert(k, v) of a value longer than BODY_MAX for a key not
\* present before (the insert returned, or it ended in a panic with part of
\* its records written) returns not found or exactly v.
C13_NoTornRead ==
    [][(/\ last.op = "insert" /\ last.fresh
        /\ BLen(last.value) > MAX_RECORD_BODYLEN
        /\ last'.op = "get" /\ last'.key = last.key)
           => last'.out \in {None, Some(last.value, BLen(last.value))}]_vars

(* --------------------- claims, drop and the lock --------------------- *)

\* C14 as claimed, against the HAMT table: the step that drops the handle
\* performs a flush, so that the file then holds what Table::flush writes
\* of the table in memory.
C14_DropFlushes ==
    [][(Live /\ handle' = "dropped") => file' = flush(TableNow).t.file]_vars

\* C15 as claimed, against the HAMT table: the lock is released when the
\* handle is dropped, so that an open of the path that starts after the
\* drop does not fail on the lock.
C15_LockReleasedOnDrop ==
    [][(handle = "dropped" /\ last'.op = "open") => last'.res # "io"]_vars

(* ------------------------ claims, the record codec -------------------- *)

\* The checksum computed over bytes [4..768) of a slot.
Computed(slot) == Crc32(slot.key, slot.length, slot.body)

\* The positions of the record table that inserts have written.
Written == {p \in DOMAIN table : 0 < p /\ p < alloc_mmap[0]}

\* C16: validate returns Some for a slot exactly when its stored checksum is
\* not zero and equals the checksum computed over bytes [4..768); a slot
\* whose stored and computed checksums are both zero is rejected, and so is
\* the all-zero slot.
C16_ValidateExactly ==
    /\ \A p \in DOMAIN table :
          /\ validate(table[p])
                <=> (table[p].checksum # 0 /\ table[p].checksum = Computed(table[p]))
          /\ (table[p].checksum = 0 /\ Computed(table[p]) = 0) => ~validate(table[p])
    /\ ~validate(ZeroSlot)

\* C16 witness: the record table holds a written slot whose stored and
\* computed checksums are both zero, a slot whose non-zero stored checksum
\* differs from the computed one, and a valid slot, and a get has just
\* returned not found for the key whose record has the zero checksum.
C16_Witness ==
    /\ last.op = "get" /\ last.out = None
    /\ \E p \in Written :
          /\ table[p].checksum = 0 /\ Computed(table[p]) = 0
          /\ table[p].key \in KeyRecords(last.key)
    /\ \E p \in Written : table[p].checksum # 0 /\ Mismatch(table[p])
    /\ \E p \in Written : validate(table[p])

\* The bytes of a body that Record::value returns for the length n.
Meaningful(body, n) ==
    Take(body, IF n < MAX_RECORD_BODYLEN THEN n ELSE MAX_RECORD_BODYLEN)

\* The bytes of a body past those.
Padding(body, n) ==
    Drop(body, IF n < MAX_RECORD_BODYLEN THEN n ELSE MAX_RECORD_BODYLEN)

\* The bytes are all zero.
AllZero(bytes) == ByteSum(bytes) = 0

\* C17 as claimed: for a slot that validate accepts, the encoding of its
\* key, length and value reproduces the checksum, the key, the length and
\* the meaningful body bytes of the slot exactly.
C17_CodecRoundTrip ==
    (codec.done /\ codec.valid)
        => /\ codec.out.checksum = codec.slot.checksum
           /\ codec.out.key = codec.slot.key
           /\ codec.out.length = codec.slot.length
           /\ Meaningful(codec.out.body, codec.slot.length)
                  = Meaningful(codec.slot.body, codec.slot.length)

\* C17 amended: for a slot that validate accepts, the encoding reproduces
\* the key, the length and the meaningful body bytes, its bytes past them
\* are zero and its checksum is the one computed over its own bytes; it is
\* the slot byte for byte, checksum included, when the bytes of the slot
\* past the meaningful ones are zero.
C17_CodecRoundTripZeroPadded ==
    (codec.done /\ codec.valid)
        => /\ codec.out.key = codec.slot.key
           /\ codec.out.length = codec.slot.length
           /\ Meaningful(codec.out.body, codec.slot.length)
                  = Meaningful(codec.slot.body, codec.slot.length)
           /\ AllZero(Padding(codec.out.body, codec.slot.length))
           /\ BLen(codec.out.body) = MAX_RECORD_BODYLEN
           /\ codec.out.checksum = Computed(codec.out)
           /\ AllZero(Padding(codec.slot.body, codec.slot.length))
                  => codec.out = codec.slot

\* C17 witness: a valid slot holding a five-byte value followed by zeros was
\* encoded again, and the encoding is the slot.
C17_Witness ==
    /\ codec.done /\ codec.valid
    /\ codec.slot.length = 5
    /\ Meaningful(codec.slot.body, 5) = Hello
    /\ AllZero(Padding(codec.slot.body, 5))
    /\ codec.out = codec.slot

(* ---------------------- claims, the probe path ------------------------ *)

\* The index word w points at a valid record of a key other than dk.
HeldByOther(mm, tab, w, dk) ==
    /\ mm[w] # 0
    /\ mm[w] \in DOMAIN tab
    /\ validate(tab[mm[w]])
    /\ tab[mm[w]].key # dk

\* The step is an insert that wrote a valid record of the derived key dk at
\* the record position p, for a key whose first probe reads the last index
\* word while that word points at a valid record of another key.
PlacedPastEnd(dk, p) ==
    /\ last'.op = "insert"
    /\ ProbeWord(dk, 0) = NWords - 1
    /\ HeldByOther(alloc_mmap, table, NWords - 1, dk)
    /\ p \in DOMAIN table
    /\ p >= alloc_mmap[0] /\ p < alloc_mmap'[0]
    /\ table'[p].key = dk
    /\ validate(table'[p])

\* The step wrote one record.
OneRecordWritten ==
    alloc_mmap'[0] = (IF alloc_mmap[0] = 0 THEN 1 ELSE alloc_mmap[0]) + 1

InsertedBytes(k) ==
    Some(compress_prepend_size(hist[k].first[1]),
         BLen(compress_prepend_size(hist[k].first[1])))

\* C19 as claimed: on the table that created the file, with every key
\* inserted with one value, lookup(k) of every key inserted so far returns
\* the bytes inserted for it, whether or not a flush has written its record
\* to the file.
C19_ReadAfterWriteAcrossFlushes ==
    (handle = "created" /\ \A k \in TableKeys : ~ hist[k].again)
        => \A k \in TableKeys :
               hist[k].first # << >> => lookup(TableNow, k) = InsertedBytes(k)

(* ----------------------- claims, append only -------------------------- *)

\* An insert of the indexed mapping leaves every valid record as it is and
\* writes at or beyond the allocation pointer only; the pointer does not go
\* back.
SlotsAppendOnly ==
    /\ alloc_mmap'[0] >= alloc_mmap[0]
    /\ \A p \in DOMAIN table :
           /\ validate(table[p]) => table'[p] = table[p]
           /\ table'[p] # table[p] => (AllocNow <= p /\ p < alloc_mmap'[0])

\* A flush of the HAMT table leaves the records of the file as they are and
\* writes each new record at or beyond the write position, behind the
\* record before it; the write position does not go back.
FileAppendOnly ==
    /\ Len(file') >= Len(file)
    /\ SubSeq(file', 1, Len(file)) = file
    /\ (Live /\ Live') => ptr' >= ptr
    /\ \A i \in (Len(file) + 1) .. Len(file') :
           /\ file'[i].offset >= ptr
           /\ i > 1 => file'[i].offset >= file'[i - 1].offset
                                       + RECORD_HEADER_SIZE
                                       + file'[i - 1].bytes.length

Lap == 0 .. (NWords - 1)

\* The derived key dk is held at probe position v of its own probe
\* sequence: the index word read there points at a valid record of dk.
HeldAt(dk, v) ==
    /\ ProbeWord(dk, v) # 0
    /\ alloc_mmap[ProbeWord(dk, v)] \in DOMAIN table \ {0}
    /\ validate(SlotAt(ProbeWord(dk, v)))
    /\ SlotAt(ProbeWord(dk, v)).key = dk

\* Each derived key is held by at most one valid record, and each record
\* by at most one index word.
HeldOnce ==
    /\ \A p \in Written, q \in Written :
           (validate(table[p]) /\ validate(table[q])
               /\ table[p].key = table[q].key) => p = q
    /\ \A w \in 1 .. (NWords - 1), x \in 1 .. (NWords - 1) :
           (alloc_mmap[w] # 0 /\ alloc_mmap[w] = alloc_mmap[x]) => w = x

\* The step is an insert that wrote one record: its index word is the first
\* on the key's probe path, index 0 aside, that was free or pointed at an
\* invalid record.
FirstInvalidTaken ==
    (last'.op = "insert" /\ OneRecordWritten)
        => \E v \in Lap :
              /\ ProbeWord(table'[AllocNow].key, v) # 0
              /\ alloc_mmap'[ProbeWord(table'[AllocNow].key, v)] = AllocNow
              /\ ~ validate(SlotAt(ProbeWord(table'[AllocNow].key, v)))
              /\ \A u \in 0 .. (v - 1) :
                     \/ ProbeWord(table'[AllocNow].key, u) = 0
                     \/ HeldByOther(alloc_mmap, table,
                                    ProbeWord(table'[AllocNow].key, u),
                                    table'[AllocNow].key)

NewRecords == {p \in DOMAIN table : AllocNow <= p /\ p < alloc_mmap'[0]}

\* The record the step wrote for the derived key dk carries the length n
\* and the body bytes followed by zeros.
WroteRecord(dk, n, bytes) ==
    \E p \in NewRecords :
        /\ table'[p].key = dk
        /\ table'[p].length = n
        /\ table'[p].body = Cat(bytes, Run(0, MAX_RECORD_BODYLEN - BLen(bytes)))

\* The smaller of two numbers.
Min(a, b) == IF a < b THEN a ELSE b

\* The layout of the records of a value of L bytes inserted for key k.
ChunkLayout(k, v) ==
    LET L == BLen(v)
    IN  IF L <= MAX_RECORD_BODYLEN
        THEN /\ Cardinality(NewRecords) = 1
             /\ WroteRecord(atomic_key(k), L, v)
        ELSE /\ Cardinality(NewRecords) = 1 + CeilDiv(L, MAX_RECORD_BODYLEN)
             /\ WroteRecord(atomic_key(k), L, << >>)
             /\ \A i \in 0 .. (CeilDiv(L, MAX_RECORD_BODYLEN) - 1) :
                    WroteRecord(chunk_key(k, i),
                                Min(MAX_RECORD_BODYLEN, L - i * MAX_RECORD_BODYLEN),
                                Take(Drop(v, i * MAX_RECORD_BODYLEN),
                                     Min(MAX_RECORD_BODYLEN,
                                         L - i * MAX_RECORD_BODYLEN)))

\* C22 as claimed: inserting a value of L bytes for a fresh key writes one
\* record when L <= BODY_MAX and 1 + ceil(L / BODY_MAX) records otherwise:
\* a header of length L with an empty body and chunk i of length
\* min(BODY_MAX, L - i * BODY_MAX) holding the i-th slice of the value.
C22_ChunkLayout ==
    [][(last'.op = "insert" /\ last'.fresh)
          => ChunkLayout(last'.key, last'.value)]_vars

(* ----------------------- claims, empty values ------------------------- *)

\* The positions of the valid records of the derived key dk.
ValidOf(dk) ==
    {p \in Written : validate(table[p]) /\ table[p].key = dk}

\* One valid record of length 0 is stored for caller key k, and get(k)
\* returns the empty byte slice.
EmptyStored(k) ==
    /\ Cardinality(ValidOf(atomic_key(k))) = 1
    /\ \A p \in ValidOf(atomic_key(k)) :
           table[p].length = 0 /\ table[p].body = Run(0, MAX_RECORD_BODYLEN)
    /\ \A i \in ChunkIndexes : ValidOf(chunk_key(k, i)) = {}
    /\ GetNow(k) = Some(<< >>, 0)

\* C23 as claimed: after insert(k, v) with |v| = 0 has returned, one record
\* of length 0 is stored for k and get(k) returns Some(empty byte slice).
C23_EmptyIsNotAbsent ==
    (Inserted /\ BLen(last.value) = 0) => EmptyStored(last.key)

\* C23 amended: the same for a key of which the store held no valid record
\* and whose empty record is encoded with a non-zero CRC-32.
C23_EmptyIsNotAbsentFresh ==
    (/\ Inserted /\ BLen(last.value) = 0
     /\ last.fresh
     /\ NonZeroChecksums(last.key, last.value))
        => EmptyStored(last.key)

\* C23 witness: the empty value was inserted for a key not stored before,
\* the insert returned and get of the key shows the empty byte slice.
C23_Witness ==
    /\ Inserted /\ last.fresh
    /\ last.value = << >>
    /\ GetNow(last.key) = Some(<< >>, 0)
    /\ \E p \in Written : table[p].length = 0 /\ validate(table[p])

(* ------------------------ claims, write locking ---------------------- *)

\* Thread t is inside Mapping::insert, past self.inner.write().
InProgress(t) == threads[t].pc \in {"probing", "writing", "done", "spinning"}

\* The store is the one Mapping::insert as one step makes of the store that
\* thread t found, with the outcome res.
AsOneStep(t, res) ==
    /\ threads[t].want[1].res = res
    /\ threads[t].want[1].mm = alloc_mmap
    /\ threads[t].want[1].tab = table

BytesLen(b) ==
    8 + 4 + 4 + (IF b.kind = RECORD_KIND_DATA THEN 32 + BLen(b.value)
                 ELSE 8 + 8 * Len(b.offsets))

\* C25 as claimed: new_borrowed with divider d on the bytes write_bytes
\* produced for a record r with d returns a record equal to r, write_bytes
\* returns the number of bytes it wrote, and new_borrowed returns None for
\* the bytes with a wrong checksum.
C25_RecordRoundTrip ==
    /\ codec.stage # "new" => codec.n = BytesLen(codec.bytes)
    /\ codec.stage = "read" => codec.out = SomeRecord(codec.rec)
    /\ codec.stage = "read damaged" => codec.out = NoRecord

(* ---------------- claims, children before parents -------------------- *)

\* Every pointer of a node is RecordPtr::OnDisk.
AllOnDisk(rec) == \A i \in 1 .. Len(rec.ptrs) : rec.ptrs[i].loc = "OnDisk"

\* Table::flush of the table as it stands does not panic in write_bytes.
FlushSerialises == Live => flush(TableNow).res = "ok"

\* Every pointer written into a node of the file is a position below the
\* position of the node.
PointersBelow ==
    \A i \in 1 .. Len(file) :
        \A j \in 1 .. Len(file[i].bytes.offsets) :
            file[i].bytes.offsets[j] < file[i].offset

\* A flush of a dirty table (the only step that writes to the file) leaves
\* dirty false and the root with on-disk pointers only.
FlushCleans ==
    (Live /\ dirty /\ file' # file) => (~dirty' /\ AllOnDisk(root'))

\* C26: Table::flush never serialises a node that has an in-memory child;
\* every on-disk pointer written into a node is a position strictly below
\* the node's own; and when a flush of a dirty table returns, dirty is false
\* and every pointer of the root is on disk.
C26_ChildrenBeforeParents ==
    /\ [](FlushSerialises /\ PointersBelow)
    /\ [][FlushCleans]_vars

\* A flush wrote an inner node with two children, behind them, and the root
\* behind it.
C26_Witness ==
    /\ Live /\ ~dirty /\ AllOnDisk(root) /\ Len(root.ptrs) > 0
    /\ \E i \in 1 .. Len(file) :
           /\ file[i].bytes.kind = RECORD_KIND_HAMI
           /\ Len(file[i].bytes.offsets) = 2
           /\ file[i].bytes.offsets[1] < file[i].bytes.offsets[2]
           /\ \E j \in (i + 1) .. Len(file) :
                  /\ file[j].bytes.kind = RECORD_KIND_HAMR
                  /\ \E n \in 1 .. Len(file[j].bytes.offsets) :
                         file[j].bytes.offsets[n] = file[i].offset

(* ------------------ claims, two keys in the HAMT --------------------- *)

\* What Table::lookup is to return for a key inserted with value v.
StoredAs(v) ==
    Some(compress_prepend_size(v), BLen(compress_prepend_size(v)))

\* The table was created by this handle, has flushed nothing, and holds k1
\* and no other key.
HoldsOnly(k1) ==
    /\ handle = "created" /\ file = << >>
    /\ hist[k1].first # << >>
    /\ \A k \in TableKeys \ {k1} : hist[k].first = << >>

\* C27 as claimed, on a table in memory: after insert(k1, v1), an
\* insert(k2, v2) of another key returns, and then lookup(k1) = v1 and
\* lookup(k2) = v2, whatever groups of the two keys coincide.
C27_TwoKeysInsertTerminates ==
    [][\A k1, k2 \in TableKeys :
          (/\ k1 # k2
           /\ HoldsOnly(k1)
           /\ last'.op = "insert" /\ last'.key = k2
           /\ file' = << >>)
          => /\ last'.res = "ok"
             /\ lookup(TableNow', k1) = StoredAs(hist[k1].first[1])
             /\ lookup(TableNow', k2) = StoredAs(last'.value)]_vars

(* ------------------- claims, the frame of insert --------------------- *)

\* An insert of the indexed mapping that returned leaves get of every other
\* key as it was.
IndexedFrame ==
    (last'.op = "insert" /\ last'.res = "ok")
        => \A k \in Keys \ {last'.key} :
               GetIn(alloc_mmap', table', overflow_checks', k) = GetNow(k)

\* An insert of the HAMT table that returned leaves get of every other key
\* as it was.
HamtFrame ==
    (/\ Live /\ Live' /\ flusher' = flusher
     /\ last'.op = "insert" /\ last'.res = "ok")
        => \A k \in TableKeys \ {last'.key} :
               get(TableNow', k) = TableGetNow(k)

\* C28 as claimed: for every key k and every other key k', an insert(k, v)
\* that returns, whether it stores v or finds k present, does not change
\* the result of get(k').
C28_InsertFrame == [][IndexedFrame /\ HamtFrame]_vars

(* ----------------- claims, the allocation pointer -------------------- *)

\* The index words that hold a record pointer.
OccupiedWords == {w \in 1 .. (NWords - 1) : alloc_mmap[w] # 0}

\* The allocation pointer is above every record pointer of the index.
PointerAbove == \A w \in OccupiedWords : alloc_mmap[0] > alloc_mmap[w]

\* No record was written at position 0, the pointer an empty word holds.
NoRecordAtZero == table[0] = ZeroSlot

\* No two index words hold the same record pointer.
DistinctPointers ==
    \A w \in OccupiedWords, x \in OccupiedWords :
        alloc_mmap[w] = alloc_mmap[x] => w = x

\* No thread stands between the stores of an atomic insert.
BetweenInserts ==
    \A t \in Threads : threads[t].pc \notin {"record written", "word written"}

\* The step stores the allocation pointer: the value stored is one past the
\* position of the record the atomic insert wrote.
PointerOnePast ==
    alloc_mmap'[0] # alloc_mmap[0]
        => \E t \in Threads :
               /\ threads[t].pc = "word written"
               /\ table[alloc_mmap[threads[t].at]].key =
                      Atomics(threads[t].key, threads[t].value)[threads[t].i].dk
               /\ alloc_mmap'[0] = alloc_mmap[threads[t].at] + 1

\* C29 as claimed: in every reachable state (no thread between the stores
\* of an atomic insert) the allocation pointer in word 0 is above every
\* record pointer of the index, no record pointer of an occupied entry is
\* 0, no two entries hold the same pointer, and each atomic insert that
\* writes a record sets the allocation pointer to one past the position it
\* wrote.
C29_AllocationPointer ==
    /\ [](BetweenInserts => (PointerAbove /\ NoRecordAtZero /\ DistinctPointers))
    /\ [][PointerOnePast]_vars

(* ------------------ claims, the flusher shuts down ------------------- *)

\* Once the Mapping is dropped nothing more is written to the file, and a
\* thread that returned stays away.
QuietAfterDrop ==
    handle = "dropped"
        => (file' = file /\ (flusher = "gone" => flusher' = "gone"))

Writers ==
    {t \in Threads : threads[t].pc \in {"in insert", "in flush"}} \cup
    (IF flusher = "flushing" THEN {NThreads + 1} ELSE {})

\* The mesh-flush thread holds the write lock in its flush and nowhere else.
FlusherLocksToFlush == (inner = NThreads + 1) <=> (flusher = "flushing")

\* At most one thread writes, and none reads while one writes.
WritersExclude ==
    /\ Cardinality(Writers) <= 1
    /\ Writers # {} => \A t \in Threads : threads[t].pc # "in get"

\* Thread t waits for the lock.
Waits(t) ==
    threads[t].pc \in {"waiting get", "waiting insert", "waiting flush"}

\* Thread t was granted the lock.
Granted(t) == threads[t].pc \in {"in get", "in insert", "in flush"}

\* C31 as claimed: the mesh-flush thread holds the write lock for its flush
\* only and never while it sleeps, a flush or an insert excludes every
\* other flush, insert and get, and every get, insert or flush that waits
\* for the lock is eventually granted it.
C31_FlusherDoesNotStarve ==
    /\ [](FlusherLocksToFlush /\ WritersExclude)
    /\ \A t \in Threads : Waits(t) ~> Granted(t)

====
